---- MODULE Spec2Model ----
(***************************************************************************)
(* Sync orchestration of olt_manager (tasks.py): the Celery tasks          *)
(* run_ssh_telnet_sync, run_snmp_sync, sync_all_olts_data and              *)
(* check_all_olts_status working on the olts and onus tables.              *)
(*                                                                         *)
(* Every task owns one SQLAlchemy session.  A session collects its writes  *)
(* (pending INSERTs, dirty attributes) and makes them visible to the other *)
(* sessions at db.commit(); db.rollback() drops them.  Queries read the    *)
(* committed table, and with autoflush also the session's own pending      *)
(* rows.                                                                   *)
(***************************************************************************)
EXTENDS Integers, Sequences, FiniteSets, TLC

\* ------------------------------------------------------------------ bounds
\* worker slots that run tasks concurrently
MaxJobs == 2
\* task invocations in one behaviour (each one advances the clock)
MaxRuns == 2
\* records one adapter fetch returns
MaxBatch == 2

\* ------------------------------------------------------------- the devices
\* ids of the rows of the olts table
OltIds == {1, 2, 3, 4, 5, 6}
\* an id no row of the olts table has (a deleted or mistyped device)
UnknownOlts == {9}
TaskIds == OltIds \cup UnknownOlts

\* The olts rows (vendor, model) and whether the oids table holds rows for
\* that (vendor, model).  "none": the row's vendor relationship is None.
OLT == [o \in OltIds |->
          CASE o = 1 -> [vendor |-> "hioso", olt_type |-> "epon", oids |-> TRUE]
            [] o = 2 -> [vendor |-> "hsgq",  olt_type |-> "epon", oids |-> FALSE]
            [] o = 3 -> [vendor |-> "hsgq",  olt_type |-> "gpon", oids |-> FALSE]
            [] o = 4 -> [vendor |-> "zte",   olt_type |-> "gpon", oids |-> TRUE]
            [] o = 6 -> [vendor |-> "zte",   olt_type |-> "gpon", oids |-> FALSE]
            [] OTHER -> [vendor |-> "none",  olt_type |-> "gpon", oids |-> FALSE]]

\* ----------------------------------------------------- what adapters return
Identifiers == {"X", "Y"}
\* the ONUs attached to each device: what its adapters can report
Attached == [o \in OltIds |->
               CASE o = 1 -> {"X", "Y"}
                 [] o = 2 -> {"X"}
                 [] OTHER -> {}]
\* what a fetch observes of one ONU: its interface locator and detail map
Observed == { [pon_interface |-> "1/1:3", details |-> "a"],
              [pon_interface |-> "1/1:7", details |-> "b"] }
OnuItems(o) ==
    { [identifier |-> id, pon_interface |-> ob.pon_interface, details |-> ob.details] :
        id \in Attached[o], ob \in Observed }

RECURSIVE SeqsUpTo(_, _)
SeqsUpTo(S, n) ==
    IF n = 0 THEN { <<>> }
    ELSE LET shorter == SeqsUpTo(S, n - 1)
         IN  shorter \cup { Append(s, x) : s \in { t \in shorter : Len(t) = n - 1 }, x \in S }

Batches == [o \in TaskIds |->
              IF o \in OltIds THEN SeqsUpTo(OnuItems(o), MaxBatch) ELSE { <<>> }]

\* The outcome of asyncio.run(service.get_onus()) / get_onus_snmp():
\* records, an error-flagged dict, None, or an exception.
AdapterResults == [o \in TaskIds |->
    { [kind |-> "onus", onus |-> b] : b \in Batches[o] } \cup
    { [kind |-> k, onus |-> <<>>] : k \in {"error", "none", "raise"} }]

Tasks == {"run_ssh_telnet_sync", "run_snmp_sync"}
Jobs == 1..MaxJobs

\* ------------------------------------------------------------------- state
VARIABLES
    onus,       \* the committed onus table, a sequence of rows; the row id is the index
    status,     \* olts.status of every olts row
    checked,    \* olts.last_checked of every olts row (clock value, 0 = never)
    queue,      \* messages queued by .delay() and not yet picked up: a bag of <<task, olt_id>>
    jobs,       \* per worker slot: the task it runs, its position and its session
    returned,   \* the task that returned last, its device and its payload
    now,        \* the clock: advanced by every task invocation
    autoflush,  \* the session factory's autoflush setting
    hist,       \* history: the task that committed last, the number of rows the
                \* table had before that commit, how the pings of the last
                \* status check ended, and for every slot the
                \* commit that was the last one when the slot's task started
    session,    \* one interactive fetch (get_onus): its position, transport and buffers
    parser,     \* one run of an interactive parser: the line it is given, the record it emits
    walk        \* one SNMP fetch: the walks of its fields and the records it correlates

storeVars == <<onus, status, checked, queue, jobs, returned, now, autoflush, hist>>
adapterVars == <<session, parser, walk>>
vars == <<onus, status, checked, queue, jobs, returned, now, autoflush, hist,
          session, parser, walk>>

Messages == Tasks \X TaskIds

\* what a task returns: {"message": ...} or {"error": ...}; kind "raised" is an
\* exception that leaves the task instead of a payload
Payload(kind, text, count) == [kind |-> kind, text |-> text, count |-> count]
Returned(task, o, payload) == [task |-> task, olt |-> o, payload |-> payload]
NoReturn == Returned("", 0, Payload("none", "", 0))

IdleJob == [pc |-> "idle", task |-> "", olt |-> 0, items |-> <<>>, i |-> 1,
            new |-> <<>>, upd |-> <<>>, count |-> 0, stamp |-> 0,
            result |-> Payload("none", "", 0)]

NoHist == [stamp |-> 0, task |-> "", olt |-> 0, items |-> <<>>, count |-> 0,
           rows |-> 0, ping |-> [o \in OltIds |-> "none"],
           after |-> [j \in Jobs |-> 0]]

\* models.Onu: the columns of one onus row
Onu(olt_id, identifier, pon_interface, vendor_name, details, details_snmp, last_seen) ==
    [olt_id |-> olt_id, identifier |-> identifier, pon_interface |-> pon_interface,
     vendor_name |-> vendor_name, details |-> details, details_snmp |-> details_snmp,
     last_seen |-> last_seen]

\* The onus table at the start: empty, or holding the record an earlier
\* interactive sync of device 1 inserted for ONU X, or holding the two records
\* two overlapping interactive syncs of device 1 inserted for ONU X (the
\* table has no unique constraint on olt_id, identifier).
InitialTables ==
    { <<>>,
      << Onu(1, "X", "1/1:3", "hioso", "a", "null", 0) >>,
      << Onu(1, "X", "1/1:3", "hioso", "a", "null", 0),
         Onu(1, "X", "1/1:3", "hioso", "a", "null", 0) >> }

\* olts.status at the start: devices 1 and 4 answered the last probe, 2 and 3
\* did not, and 5 was registered after it (the column's default)
InitialStatus == [o \in OltIds |->
                    CASE o \in {1, 4} -> "online"
                      [] o \in {2, 3} -> "offline"
                      [] OTHER -> "unknown"]

\* database.SessionLocal: the session factory; its autoflush setting is configuration
SessionLocal == BOOLEAN

\* no interactive fetch, parser run or SNMP fetch is under way
NoSession == [adapter |-> "none", pc |-> "idle", step |-> 0, port |-> 0,
              transport |-> "none", sent |-> <<>>, inflight |-> FALSE,
              overlap |-> FALSE, expired |-> FALSE, afterExpiry |-> FALSE,
              avail |-> <<>>, pages |-> <<>>, buf |-> <<>>,
              markers |-> 0, spaces |-> 0, parsed |-> 0,
              seen |-> 0, timedout |-> FALSE, elapsed |-> 0,
              ret |-> "none", result |-> "none"]
NoParser == [pc |-> "idle", vendor |-> "none", line |-> <<>>, emitted |-> <<>>]
NoWalk == [pc |-> "idle", vendor |-> "none", agent |-> <<>>, fails |-> <<>>,
           state |-> <<>>, results |-> <<>>, overlap |-> FALSE,
           snmp_data |-> <<>>, result |-> <<>>, ret |-> "none"]

Init ==
    /\ onus \in InitialTables
    /\ status = InitialStatus
    /\ checked = [o \in OltIds |-> 0]
    /\ queue = [m \in Messages |-> 0]
    /\ jobs = [j \in Jobs |-> IdleJob]
    /\ returned = NoReturn
    /\ now = 0
    /\ autoflush \in SessionLocal
    /\ hist = NoHist
    /\ session = NoSession
    /\ parser = NoParser
    /\ walk = NoWalk

\* ---------------------------------------------------------------- sessions
\* db.query(models.Onu).filter(identifier == ..., olt_id == ...): the rows the
\* query can return.  Committed rows are <<"row", id>>; with autoflush the
\* session's pending rows are flushed before the query and match as well.
\* .first() carries no ORDER BY, so any matching row may be the one returned.
QueryBug_AnyDevice(table, job, af) ==
    LET item == job.items[job.i]
    IN  { <<"row", r>> : r \in { r \in 1..Len(table) :
                                   table[r].identifier = item.identifier } }
        \cup
        { <<"new", n>> : n \in { n \in 1..Len(job.new) :
                                   /\ af
                                   /\ job.new[n].identifier = item.identifier } }

QueryOnu(table, job, af) ==
    LET item == job.items[job.i]
    IN  { <<"row", r>> : r \in { r \in 1..Len(table) :
                                   /\ table[r].olt_id = job.olt
                                   /\ table[r].identifier = item.identifier } }
        \cup
        { <<"new", n>> : n \in { n \in 1..Len(job.new) :
                                   /\ af
                                   /\ job.new[n].identifier = item.identifier } }

\* what .first() gives: one of the matching rows, or None
First(matches) == IF matches = {} THEN { <<"none", 0>> } ELSE matches

\* the vendor tag the interactive parsers put on their records
ParserVendorName(o) == IF OLT[o].vendor = "hioso" THEN "hioso" ELSE "hsgq"

\* run_ssh_telnet_sync, one pass of the upsert loop with db_onu as found
UpsertBug_InsertOnly(job, db_onu) ==
    LET item == job.items[job.i]
    IN  IF db_onu[1] \in {"row", "new"}
        THEN [job EXCEPT !.count = job.count + 1, !.i = job.i + 1]
        ELSE [job EXCEPT !.new = Append(job.new,
                              Onu(job.olt, item.identifier, item.pon_interface,
                                  ParserVendorName(job.olt), item.details, "null", job.stamp)),
                         !.count = job.count + 1,
                         !.i = job.i + 1]

UpsertBug_FillsSnmp(job, db_onu) ==
    LET item == job.items[job.i]
    IN  IF db_onu[1] = "row"
        THEN [job EXCEPT !.upd = (db_onu[2] :> item.details) @@ job.upd,
                         !.count = job.count + 1,
                         !.i = job.i + 1]
        ELSE [job EXCEPT !.new = Append(job.new,
                              Onu(job.olt, item.identifier, item.pon_interface,
                                  ParserVendorName(job.olt), item.details, item.details,
                                  job.stamp)),
                         !.count = job.count + 1,
                         !.i = job.i + 1]

UpsertOnu(job, db_onu) ==
    LET item == job.items[job.i]
    IN  CASE db_onu[1] = "row" ->
               [job EXCEPT !.upd = (db_onu[2] :> item.details) @@ job.upd,
                           !.count = job.count + 1,
                           !.i = job.i + 1]
          [] db_onu[1] = "new" ->
               [job EXCEPT !.new[db_onu[2]].details = item.details,
                           !.new[db_onu[2]].last_seen = job.stamp,
                           !.count = job.count + 1,
                           !.i = job.i + 1]
          [] OTHER ->
               [job EXCEPT !.new = Append(job.new,
                                Onu(job.olt, item.identifier, item.pon_interface,
                                    ParserVendorName(job.olt), item.details, "null", job.stamp)),
                           !.count = job.count + 1,
                           !.i = job.i + 1]

\* run_snmp_sync, one pass of the update loop with db_onu as found
UpdateBug_Creates(job, db_onu) ==
    LET item == job.items[job.i]
    IN  IF db_onu[1] = "row"
        THEN [job EXCEPT !.upd = (db_onu[2] :> item.details) @@ job.upd,
                         !.count = job.count + 1,
                         !.i = job.i + 1]
        ELSE [job EXCEPT !.new = Append(job.new,
                              Onu(job.olt, item.identifier, item.pon_interface,
                                  "snmp", "null", item.details, job.stamp)),
                         !.count = job.count + 1,
                         !.i = job.i + 1]

UpdateBug_CountsUnmatched(job, db_onu) ==
    LET item == job.items[job.i]
    IN  CASE db_onu[1] = "row" ->
               [job EXCEPT !.upd = (db_onu[2] :> item.details) @@ job.upd,
                           !.count = job.count + 1,
                           !.i = job.i + 1]
          [] db_onu[1] = "new" ->
               [job EXCEPT !.new[db_onu[2]].details_snmp = item.details,
                           !.new[db_onu[2]].last_seen = job.stamp,
                           !.count = job.count + 1,
                           !.i = job.i + 1]
          [] OTHER ->
               [job EXCEPT !.count = job.count + 1, !.i = job.i + 1]

UpdateOnuSnmp(job, db_onu) ==
    LET item == job.items[job.i]
    IN  CASE db_onu[1] = "row" ->
               [job EXCEPT !.upd = (db_onu[2] :> item.details) @@ job.upd,
                           !.count = job.count + 1,
                           !.i = job.i + 1]
          [] db_onu[1] = "new" ->
               [job EXCEPT !.new[db_onu[2]].details_snmp = item.details,
                           !.new[db_onu[2]].last_seen = job.stamp,
                           !.count = job.count + 1,
                           !.i = job.i + 1]
          [] OTHER ->
               [job EXCEPT !.i = job.i + 1]

\* the UPDATE a flush emits for a dirty row: only the attributes the task set
FlushBug_SnmpIntoDetails(row, job, value) ==
    [row EXCEPT !.details = value, !.last_seen = job.stamp]

FlushBug_BothMaps(row, job, value) ==
    [row EXCEPT !.details = value, !.details_snmp = value, !.last_seen = job.stamp]

FlushDirty(row, job, value) ==
    IF job.task = "run_ssh_telnet_sync"
    THEN [row EXCEPT !.details = value, !.last_seen = job.stamp]
    ELSE [row EXCEPT !.details_snmp = value, !.last_seen = job.stamp]

\* db.commit(): the session's UPDATEs and INSERTs reach the table
CommitBug_Reconcile(table, job) ==
    LET kept == SelectSeq(table, LAMBDA row :
                    row.olt_id # job.olt \/
                    \E k \in 1..Len(job.items) : job.items[k].identifier = row.identifier)
    IN  kept \o job.new

Commit(table, job) ==
    [r \in 1..Len(table) |->
        IF r \in DOMAIN job.upd THEN FlushDirty(table[r], job, job.upd[r]) ELSE table[r]]
    \o job.new

\* db.rollback(): the session's pending writes are dropped
RollbackBug_Persists(table, job) ==
    [r \in 1..Len(table) |->
        IF r \in DOMAIN job.upd THEN FlushDirty(table[r], job, job.upd[r]) ELSE table[r]]
    \o job.new

Rollback(table, job) == table

\* ------------------------------------------------------- the task prologues
Finished(job, kind, text, count) ==
    [job EXCEPT !.pc = "done", !.i = 1, !.new = <<>>, !.upd = <<>>,
                !.result = Payload(kind, text, count)]

NewJob(task, o, stamp) ==
    [IdleJob EXCEPT !.task = task, !.olt = o, !.stamp = stamp]

\* run_ssh_telnet_sync up to the upsert loop: the device lookup, the adapter
\* dispatch on vendor and model, the fetch and the test of its result.
\* storeFails: the first query raises; res: what the adapter fetch gives.
run_ssh_telnet_sync(o, res, storeFails, stamp) ==
    LET job == NewJob("run_ssh_telnet_sync", o, stamp)
    IN  CASE storeFails -> Finished(job, "raised", "exception", 0)
          [] o \notin OltIds -> Finished(job, "error", "not_found", 0)
          [] OLT[o].vendor = "none" -> Finished(job, "raised", "exception", 0)
          [] OLT[o].vendor \notin {"hsgq", "hioso"} ->
               Finished(job, "error", "not_implemented", 0)
          [] res.kind \in {"raise", "none"} -> Finished(job, "error", "exception", 0)
          [] res.kind = "error" -> Finished(job, "error", "adapter_error", 0)
          [] OTHER -> [job EXCEPT !.pc = "loop", !.items = res.onus]

\* run_snmp_sync up to the update loop: the device lookup, the OID catalog
\* lookup, the adapter dispatch, the fetch and the test of its result.
run_snmp_sync(o, res, storeFails, stamp) ==
    LET job == NewJob("run_snmp_sync", o, stamp)
    IN  CASE storeFails -> Finished(job, "raised", "exception", 0)
          [] o \notin OltIds -> Finished(job, "error", "not_found", 0)
          [] OLT[o].vendor = "none" -> Finished(job, "raised", "exception", 0)
          [] ~OLT[o].oids /\ OLT[o].olt_type # "epon" ->
               Finished(job, "error", "oids_not_found", 0)
          [] OLT[o].vendor \notin {"hsgq", "hioso"} ->
               Finished(job, "error", "not_implemented", 0)
          [] res.kind = "raise" -> Finished(job, "error", "exception", 0)
          [] OLT[o].vendor = "hsgq" /\ OLT[o].olt_type = "epon" /\ res.kind = "none" ->
               Finished(job, "error", "exception", 0)
          [] OLT[o].vendor = "hsgq" /\ OLT[o].olt_type = "epon" /\ res.kind = "error" ->
               Finished(job, "error", "adapter_error", 0)
          [] res.kind = "error" -> Finished(job, "error", "exception", 0)
          [] res.onus = <<>> -> Finished(job, "message", "no_onus", 0)
          [] OTHER -> [job EXCEPT !.pc = "loop", !.items = res.onus]

StartTask(task, o, res, storeFails, stamp) ==
    IF task = "run_ssh_telnet_sync"
    THEN run_ssh_telnet_sync(o, res, storeFails, stamp)
    ELSE run_snmp_sync(o, res, storeFails, stamp)

\* the slot a worker starts its next task in
Free(j) == jobs[j].pc = "idle" /\ \A k \in Jobs : k < j => jobs[k].pc # "idle"

\* the slot after the task in it went as far as `job`: a task that returned
\* leaves the slot, and its payload is what was returned last
SlotAfter(job) == IF job.pc = "done" THEN IdleJob ELSE job
ReturnAfter(job, before) ==
    IF job.pc = "done" THEN Returned(job.task, job.olt, job.result) ELSE before

\* ------------------------------------------------------------------ actions
\* A worker slot picks up a message the API queued with
\* run_ssh_telnet_sync.delay(olt_id) / run_snmp_sync.delay(olt_id) (a manual
\* trigger, or its redelivery) and runs the task up to its loop.
RunTask(j) ==
    /\ Free(j)
    /\ now < MaxRuns
    /\ now' = now + 1
    /\ \E task \in Tasks, o \in TaskIds, storeFails \in BOOLEAN :
         \E res \in AdapterResults[o] :
            LET job == StartTask(task, o, res, storeFails, now + 1)
            IN  /\ jobs' = [jobs EXCEPT ![j] = SlotAfter(job)]
                /\ returned' = ReturnAfter(job, returned)
    /\ hist' = [hist EXCEPT !.after[j] = IF jobs'[j].pc = "loop" THEN hist.stamp ELSE 0]
    /\ UNCHANGED <<onus, status, checked, queue, autoflush>>
    /\ UNCHANGED adapterVars

\* A worker slot picks up a message that sync_all_olts_data queued.
Deliver(j) ==
    /\ Free(j)
    /\ now < MaxRuns
    /\ now' = now + 1
    /\ \E m \in Messages :
         /\ queue[m] > 0
         /\ queue' = [queue EXCEPT ![m] = @ - 1]
         /\ \E storeFails \in BOOLEAN : \E res \in AdapterResults[m[2]] :
               LET job == StartTask(m[1], m[2], res, storeFails, now + 1)
               IN  /\ jobs' = [jobs EXCEPT ![j] = SlotAfter(job)]
                   /\ returned' = ReturnAfter(job, returned)
    /\ hist' = [hist EXCEPT !.after[j] = IF jobs'[j].pc = "loop" THEN hist.stamp ELSE 0]
    /\ UNCHANGED <<onus, status, checked, autoflush>>
    /\ UNCHANGED adapterVars

\* One pass of the loop of the task in slot j: the query for the record's
\* row and the write to the session.
LoopPass(j) ==
    /\ jobs[j].pc = "loop"
    /\ jobs[j].i <= Len(jobs[j].items)
    /\ \E db_onu \in First(QueryOnu(onus, jobs[j], autoflush)) :
          jobs' = [jobs EXCEPT ![j] =
                      IF jobs[j].task = "run_ssh_telnet_sync"
                      THEN UpsertOnu(jobs[j], db_onu)
                      ELSE UpdateOnuSnmp(jobs[j], db_onu)]
    /\ UNCHANGED <<onus, status, checked, queue, returned, now, autoflush, hist>>
    /\ UNCHANGED adapterVars

\* The loop is over: db.commit() and the success payload.
CommitTask(j) ==
    /\ jobs[j].pc = "loop"
    /\ jobs[j].i > Len(jobs[j].items)
    /\ onus' = Commit(onus, jobs[j])
    /\ LET job == Finished(jobs[j], "message", "synced", jobs[j].count)
       IN  /\ jobs' = [jobs EXCEPT ![j] = SlotAfter(job)]
           /\ returned' = ReturnAfter(job, returned)
    /\ hist' = [hist EXCEPT !.stamp = jobs[j].stamp, !.task = jobs[j].task,
                            !.olt = jobs[j].olt, !.items = jobs[j].items,
                            !.count = jobs[j].count, !.rows = Len(onus),
                            !.after[j] = 0]
    /\ UNCHANGED <<status, checked, queue, now, autoflush>>
    /\ UNCHANGED adapterVars

\* A query of the loop or the commit raises: the except branch rolls the
\* session back and returns the error payload.
RaiseInTask(j) ==
    /\ jobs[j].pc = "loop"
    /\ onus' = Rollback(onus, jobs[j])
    /\ LET job == Finished(jobs[j], "error", "db_exception", 0)
       IN  /\ jobs' = [jobs EXCEPT ![j] = SlotAfter(job)]
           /\ returned' = ReturnAfter(job, returned)
    /\ hist' = [hist EXCEPT !.after[j] = 0]
    /\ UNCHANGED <<status, checked, queue, now, autoflush>>
    /\ UNCHANGED adapterVars

\* sync_all_olts_data ----------------------------------------------------
\* the rows of olts.filter(status == 'online').all(), by id
RECURSIVE SortedSeq(_)
SortedSeq(S) ==
    IF S = {} THEN <<>>
    ELSE LET m == CHOOSE x \in S : \A y \in S : x <= y
         IN  <<m>> \o SortedSeq(S \ {m})

OnlineOlts == SortedSeq({ o \in OltIds : status[o] = "online" })

\* the .delay() calls of the loop over olts, in the order they are made
DelayBug_SkipsSnmp(olts) ==
    [k \in 1..Len(olts) |-> <<"run_ssh_telnet_sync", olts[k]>>]

RECURSIVE DelayCalls(_)
DelayCalls(olts) ==
    IF olts = <<>> THEN <<>>
    ELSE << <<"run_ssh_telnet_sync", Head(olts)>>, <<"run_snmp_sync", Head(olts)>> >>
         \o DelayCalls(Tail(olts))

\* the queue after the first n of the calls went through
Queued(q, calls, n) ==
    [m \in Messages |-> q[m] + Cardinality({ k \in 1..n : calls[k] = m })]

\* sync_all_olts_data: made is the number of .delay() calls that go through
\* before one raises (all of them: no call raises); queryFails: the query raises
sync_all_olts_data ==
    /\ now < MaxRuns
    /\ now' = now + 1
    /\ LET olts == OnlineOlts
           calls == DelayCalls(olts)
       IN  \E made \in 0..Len(calls), queryFails \in BOOLEAN :
           IF queryFails
           THEN /\ returned' = Returned("sync_all_olts_data", 0, Payload("error", "exception", 0))
                /\ UNCHANGED queue
           ELSE IF olts = <<>>
           THEN /\ returned' = Returned("sync_all_olts_data", 0, Payload("message", "no_online", 0))
                /\ UNCHANGED queue
           ELSE /\ queue' = Queued(queue, calls, made)
                /\ returned' = Returned("sync_all_olts_data", 0,
                                  IF made = Len(calls)
                                  THEN Payload("message", "queued", Len(olts))
                                  ELSE Payload("error", "exception", 0))
    /\ UNCHANGED <<onus, status, checked, jobs, autoflush, hist>>
    /\ UNCHANGED adapterVars

\* check_all_olts_status -------------------------------------------------
\* how subprocess.run(ping) ends: exit code 0, another exit code,
\* TimeoutExpired, or another exception
PingResults == {"exit0", "exit1", "timeout", "exception"}
\* one round of pings: every device answers, or all but one, or none (and
\* then every ping ends the same way)
PingRounds ==
    { ping \in [OltIds -> PingResults] :
        LET failed == { o \in OltIds : ping[o] # "exit0" }
        IN  \/ Cardinality(failed) \in {0, 1}
            \/ failed = OltIds /\ \A o \in OltIds : ping[o] = ping[1] }

\* the status the loop body derives from one ping
StatusBug_OfflineOnlyOnExitCode(ping) == IF ping = "exit1" THEN "offline" ELSE "online"

StatusOf(ping) == IF ping = "exit0" THEN "online" ELSE "offline"

check_all_olts_status ==
    /\ now < MaxRuns
    /\ now' = now + 1
    /\ \E ping \in PingRounds :
         /\ status' = [o \in OltIds |-> StatusOf(ping[o])]
         /\ hist' = [hist EXCEPT !.ping = ping]
    /\ checked' = [o \in OltIds |-> now + 1]
    /\ returned' = Returned("check_all_olts_status", 0,
                      Payload("message", "checked", Cardinality(OltIds)))
    /\ UNCHANGED <<onus, queue, jobs, autoflush>>
    /\ UNCHANGED adapterVars

\* ---------------------------------------------------------- specifications
Next ==
    \/ \E j \in Jobs : RunTask(j)
    \/ \E j \in Jobs : Deliver(j)
    \/ \E j \in Jobs : LoopPass(j)
    \/ \E j \in Jobs : CommitTask(j)
    \/ \E j \in Jobs : RaiseInTask(j)
    \/ sync_all_olts_data
    \/ check_all_olts_status

Spec == Init /\ [][Next]_vars

\* ===================================================== interactive fetches
\* One get_onus() call of an interactive adapter against one device.  The
\* device's side is nondeterministic: a wait sees its prompt, expires, or the
\* connection is lost; the bytes of a listing arrive in chunks cut anywhere.
\*
\* ports HiosoTelnetService.get_onus tries: range(1, 3)
MaxPort == 2

\* the time after which a wait_for_prompt gives up, in passes of its loop
\* that read nothing
MaxWait == 2

\* what a wait for a prompt can end with
WaitOutcomes == {"seen", "timeout", "lost"}

\* writer.write(line): a command line goes out.  overlap records that it went
\* out while the prompt ending the previous line had not been observed,
\* afterExpiry that it went out after a login wait had expired.
Write(s, line) ==
    [s EXCEPT !.sent = Append(s.sent, line),
              !.overlap = s.overlap \/ s.inflight,
              !.afterExpiry = s.afterExpiry \/ s.expired,
              !.inflight = TRUE]

\* the awaited prompt was found in the received stream; seen counts the
\* prompts observed so far
Observe(s) == [s EXCEPT !.inflight = FALSE, !.seen = s.seen + 1]

\* the except branch: the result is the error dict
Fail(s) == [s EXCEPT !.ret = "error", !.pc = "finally"]
\* a wait ends without its prompt
Expire(s, w) ==
    IF w = "lost" THEN Fail([s EXCEPT !.transport = "closing"]) ELSE Fail(s)

\* HiosoTelnetService.connect: the prompts waited for, and the line written
\* after each but the last
HiosoLoginPrompts ==
    << "login:", "Password:", "Revision:", "Access Password:", "EPON>",
       "Enable Password:", "EPON#" >>
HiosoLoginInputs ==
    << "username", "password", "", "access_password", "enable", "enable_password" >>
\* get_onus: the two mode commands before the loop over ports
HiosoModeCommands == << "configure terminal", "epon" >>

\* What the device prints for "show onu all", page by page: "o" an ONU line,
\* "m1" "m2" the two halves of a pagination marker, "p" the port prompt.  After
\* a marker the device waits for a key; the last listing never ends (the
\* device hangs).
ShowOutputs ==
    { << <<"o", "p">> >>,
      << <<"o", "m1", "m2">>, <<"o", "p">> >>,
      << <<"o">> >> }

\* "---- More ----" in chunk: both halves of a marker, adjacent, in one text
HasMarker(text) ==
    \E k \in 1..(Len(text) - 1) : text[k] = "m1" /\ text[k + 1] = "m2"

\* re.sub(r'--+ (More|...) --+', '', full_output): complete markers removed
RECURSIVE StripMarkers(_)
StripMarkers(text) ==
    IF Len(text) < 2 THEN text
    ELSE IF text[1] = "m1" /\ text[2] = "m2"
         THEN StripMarkers(SubSeq(text, 3, Len(text)))
         ELSE <<text[1]>> \o StripMarkers(Tail(text))

\* the number of tokens tok in text
RECURSIVE Count(_, _)
Count(text, tok) ==
    IF text = <<>> THEN 0
    ELSE (IF Head(text) = tok THEN 1 ELSE 0) + Count(Tail(text), tok)

\* a read of command output timed out: the read loop is left as if the output
\* were complete (HiosoTelnetService goes on to parse and leave the port,
\* HsgqSshService to leave the connection and return its records)
TimeoutBug_IsError(s) == Fail([s EXCEPT !.timedout = TRUE])

EndOfOutput(s) ==
    IF s.adapter = "hioso"
    THEN [s EXCEPT !.pc = "leave", !.timedout = TRUE]
    ELSE [s EXCEPT !.ret = "onus", !.pc = "finally", !.timedout = TRUE]

\* telnetlib3.open_connection
HiosoConnect ==
    /\ session.adapter = "hioso"
    /\ session.pc = "connect"
    /\ \E opened \in BOOLEAN :
          session' = IF opened
                     THEN [session EXCEPT !.transport = "open", !.pc = "login", !.step = 1]
                     ELSE Fail(session)
    /\ UNCHANGED <<storeVars, parser, walk>>

\* connect: one step of the login script, with w what its _read_until ends
\* with: the prompt was read and the step's line is written (after the last
\* prompt connect returns), or the wait raises
LoginBug_WritesBlind(s, w) ==
    IF s.step < Len(HiosoLoginPrompts)
    THEN [Write(IF w = "seen" THEN Observe(s) ELSE s, HiosoLoginInputs[s.step])
            EXCEPT !.step = s.step + 1]
    ELSE [s EXCEPT !.pc = "mode", !.step = 1]

HiosoLoginStep(s, w) ==
    IF w = "seen"
    THEN IF s.step < Len(HiosoLoginPrompts)
         THEN [Write(Observe(s), HiosoLoginInputs[s.step]) EXCEPT !.step = s.step + 1]
         ELSE [Observe(s) EXCEPT !.pc = "mode", !.step = 1]
    ELSE Expire([s EXCEPT !.expired = (w = "timeout")], w)

\* connect: one _read_until of the login dialogue and the line written after it
HiosoLogin ==
    /\ session.adapter = "hioso"
    /\ session.pc = "login"
    /\ \E w \in WaitOutcomes : session' = HiosoLoginStep(session, w)
    /\ UNCHANGED <<storeVars, parser, walk>>

\* get_onus: "configure terminal" and "epon", each followed by its wait
HiosoMode ==
    /\ session.adapter = "hioso"
    /\ session.pc = "mode"
    /\ \E w \in WaitOutcomes :
          LET s1 == Write(session, HiosoModeCommands[session.step])
          IN  session' =
                 IF w = "seen"
                 THEN IF session.step < Len(HiosoModeCommands)
                      THEN [Observe(s1) EXCEPT !.step = session.step + 1]
                      ELSE [Observe(s1) EXCEPT !.pc = "port", !.port = 1]
                 ELSE Expire(s1, w)
    /\ UNCHANGED <<storeVars, parser, walk>>

\* the loop over ports goes on to the next port, or get_onus returns its records
NextPort(s) ==
    IF s.port < MaxPort
    THEN [s EXCEPT !.pc = "port", !.port = s.port + 1]
    ELSE [s EXCEPT !.ret = "onus", !.pc = "finally"]

\* get_onus, the port prompt did not come and "exit" was written: with the
\* parent prompt back within 2 s the port is skipped, otherwise the wait raises
SkipBug_AbortsFetch(s, back) ==
    Expire(IF back = "seen" THEN Observe(s) ELSE s, "timeout")

SkipPort(s, back) ==
    IF back = "seen" THEN NextPort(Observe(s)) ELSE Expire(s, back)

\* get_onus: "pon 1/i" and the wait for the port prompt; when the wait
\* expires the port is skipped: "exit" and a 2 s wait for the parent prompt
HiosoSelectPort ==
    /\ session.adapter = "hioso"
    /\ session.pc = "port"
    /\ \E w \in WaitOutcomes, back \in {"seen", "timeout"} :
          LET s1 == Write(session, "pon")
              s2 == Write(s1, "exit")
          IN  session' =
                 CASE w = "seen" -> [Observe(s1) EXCEPT !.pc = "show"]
                   [] w = "lost" -> Expire(s1, w)
                   [] OTHER -> SkipPort(s2, back)
    /\ UNCHANGED <<storeVars, parser, walk>>

\* get_onus: "show onu all"; the device starts to print its first page
HiosoShow ==
    /\ session.adapter = "hioso"
    /\ session.pc = "show"
    /\ \E out \in ShowOutputs :
          session' = [Write(session, "show onu all")
                        EXCEPT !.pc = "read", !.buf = <<>>,
                               !.avail = Head(out), !.pages = Tail(out),
                               !.markers = 0, !.spaces = 0]
    /\ UNCHANGED <<storeVars, parser, walk>>

\* get_onus: one pass of the read loop.  reader.read(4096) gives the bytes
\* that have arrived, cut anywhere; with nothing to read it times out after
\* 5 s and the loop ends (timedout records that).  A marker in the chunk is stripped from full_output
\* and answered with a space, which makes the device print its next page.
HiosoRead ==
    /\ session.adapter = "hioso"
    /\ session.pc = "read"
    /\ IF session.avail = <<>>
       THEN session' = EndOfOutput(session)
       ELSE \E n \in 1..Len(session.avail) :
               LET chunk == SubSeq(session.avail, 1, n)
                   rest == SubSeq(session.avail, n + 1, Len(session.avail))
                   paging == HasMarker(chunk)
                   full_output == IF paging THEN StripMarkers(session.buf \o chunk)
                                  ELSE session.buf \o chunk
                   released == paging /\ session.pages # <<>>
                   s1 == [session EXCEPT
                            !.buf = full_output,
                            !.markers = session.markers + Count(chunk, "m2"),
                            !.spaces = session.spaces + (IF paging THEN 1 ELSE 0),
                            !.sent = IF paging THEN Append(session.sent, " ") ELSE session.sent,
                            !.avail = IF released THEN rest \o Head(session.pages) ELSE rest,
                            !.pages = IF released THEN Tail(session.pages) ELSE session.pages]
               IN  session' = IF Count(full_output, "p") > 0
                              THEN [Observe(s1) EXCEPT !.pc = "leave"]
                              ELSE s1
    /\ UNCHANGED <<storeVars, parser, walk>>

\* get_onus: the listing is parsed, then "exit" and the wait for the parent prompt
HiosoLeavePort ==
    /\ session.adapter = "hioso"
    /\ session.pc = "leave"
    /\ \E w \in WaitOutcomes :
          LET s1 == Write([session EXCEPT !.parsed = session.parsed + Count(session.buf, "o")],
                          "exit")
          IN  session' = IF w = "seen" THEN NextPort(Observe(s1)) ELSE Expire(s1, w)
    /\ UNCHANGED <<storeVars, parser, walk>>

\* finally: disconnect().  With a writer that is not closing it writes the
\* logout line and closes the transport; a write that raises leaves the
\* method before writer.close(), and the exception leaves get_onus.
HiosoDisconnect ==
    /\ session.adapter = "hioso"
    /\ session.pc = "finally"
    /\ \E written \in BOOLEAN :
          session' =
             IF session.transport # "open"
             THEN [session EXCEPT !.pc = "done", !.result = session.ret]
             ELSE IF written
             THEN [session EXCEPT !.pc = "done", !.result = session.ret,
                                  !.sent = Append(session.sent, "logout"),
                                  !.transport = "closed"]
             ELSE [session EXCEPT !.pc = "done", !.result = "raised"]
    /\ UNCHANGED <<storeVars, parser, walk>>

\* a session of the adapter before its get_onus() runs
NewSession(adapter) == [NoSession EXCEPT !.adapter = adapter, !.pc = "connect"]

\* HsgqEponSshService.get_onus --------------------------------------------
\* the prompts wait_for_prompt is called with, in order, and the line
\* write_cmd sends after each but the last
EponPrompts ==
    << "username:", "password:", "MSNet_Fiber>", "#", "(config)#", "(config)#" >>
EponInputs ==
    << "cli_user", "cli_pass", "enable", "configure", "show onu-info all" >>
\* the waits that belong to the manual CLI login
EponLoginSteps == 3

\* what the device sends until it falls silent, after the connection is made
\* and after each line: "o" a character of output, "m" the character that
\* completes a "--More--", "p" the character that completes the prompt
EponReplies == { <<"p">>, <<"o", "p">>, <<"o", "m", "p">>, <<"o">>, <<>> }

\* asyncssh.connect and conn.create_process
EponConnect ==
    /\ session.adapter = "hsgq_epon"
    /\ session.pc = "connect"
    /\ \E opened \in BOOLEAN, reply \in EponReplies :
          session' = IF opened
                     THEN [session EXCEPT !.transport = "open", !.pc = "dialogue",
                                          !.step = 1, !.avail = reply]
                     ELSE Fail(session)
    /\ UNCHANGED <<storeVars, parser, walk>>

\* wait_for_prompt: the time the loop has run, after one more pass that read
\* nothing (a read(1) that timed out after 1 s, or '' from a closed stream)
TickBug_Restarts(n) == IF n >= MaxWait THEN 0 ELSE n + 1

Tick(n) == n + 1

\* wait_for_prompt returns: a prompt is in its buffer, or its time is over
WaitOver(s) == Count(s.buf, "p") > 0 \/ s.elapsed > MaxWait

\* wait_for_prompt: one pass of its loop while it has not returned.  A
\* character read goes to the buffer; a "--More--" is taken out of it and
\* answered with Enter.
EponWaitPass ==
    /\ session.adapter = "hsgq_epon"
    /\ session.pc = "dialogue"
    /\ ~WaitOver(session)
    /\ IF session.avail = <<>>
       THEN session' = [session EXCEPT !.elapsed = Tick(session.elapsed)]
       ELSE \E slow \in BOOLEAN :
               LET ch == Head(session.avail)
               IN  session' = [session EXCEPT
                      !.avail = Tail(session.avail),
                      !.buf = IF ch = "m" THEN session.buf ELSE Append(session.buf, ch),
                      !.sent = IF ch = "m" THEN Append(session.sent, "enter") ELSE session.sent,
                      !.markers = session.markers + (IF ch = "m" THEN 1 ELSE 0),
                      !.spaces = session.spaces + (IF ch = "m" THEN 1 ELSE 0),
                      !.elapsed = IF slow THEN Tick(session.elapsed) ELSE session.elapsed]
    /\ UNCHANGED <<storeVars, parser, walk>>

\* wait_for_prompt returns its buffer when a prompt is in it and also when
\* the timeout has passed (a closed stream reads as '' until then); get_onus
\* does not look at what it returns and goes on to write the next line.  A
\* write to a lost connection raises.
EponDialogue ==
    /\ session.adapter = "hsgq_epon"
    /\ session.pc = "dialogue"
    /\ WaitOver(session)
    /\ \E w \in WaitOutcomes, reply \in EponReplies :
          LET login == session.step <= EponLoginSteps
              s1 == CASE w = "seen" -> Observe(session)
                      [] w = "timeout" ->
                           [session EXCEPT !.expired = session.expired \/ login]
                      [] OTHER ->
                           [session EXCEPT !.expired = session.expired \/ login,
                                           !.transport = "closing"]
          IN  /\ (w = "seen") <=> (Count(session.buf, "p") > 0)
              /\ session' =
                    IF session.step = Len(EponPrompts)
                    THEN [s1 EXCEPT !.ret = "onus", !.pc = "finally",
                                    !.parsed = Count(session.buf, "o")]
                    ELSE IF w = "lost" THEN Fail(s1)
                    ELSE [Write(s1, EponInputs[session.step])
                            EXCEPT !.step = session.step + 1, !.avail = reply,
                                   !.buf = <<>>, !.elapsed = 0]
    /\ UNCHANGED <<storeVars, parser, walk>>

\* the async with block is left (the connection is closed) and get_onus
\* returns the error dict or the parsed records
EponReturn ==
    /\ session.adapter = "hsgq_epon"
    /\ session.pc = "finally"
    /\ session' = [session EXCEPT
                     !.pc = "done", !.result = session.ret,
                     !.transport = IF session.transport = "none" THEN "none" ELSE "closed"]
    /\ UNCHANGED <<storeVars, parser, walk>>

\* HsgqSshService.get_onus ------------------------------------------------
\* what read(1024) gives 0.5 s after "enable": the password prompt, other
\* output with the command prompt, or nothing
EnableReplies == {"Password:", "#", "timeout"}
\* what the device prints for "configure": "c", the "(config)#" prompt of
\* the mode entered, or nothing that holds it (the mode was refused)
ConfigureReplies == { <<"c">>, <<>> }
\* what the device prints for "show ont-optical all": with the prompt at the
\* end, or never ending
OpticalOutputs == { <<"o", "p">>, <<"o">> }
\* "(config)#" in data: the text of the prompt, whichever command it follows
HasConfigPrompt(data) == Count(data, "c") + Count(data, "p") > 0

HsgqConnect ==
    /\ session.adapter = "hsgq"
    /\ session.pc = "connect"
    /\ \E opened \in BOOLEAN :
          session' = IF opened
                     THEN [session EXCEPT !.transport = "open", !.pc = "enable"]
                     ELSE Fail(session)
    /\ UNCHANGED <<storeVars, parser, walk>>

\* send("enable"), the read for a password prompt, send(password) if asked
HsgqEnable ==
    /\ session.adapter = "hsgq"
    /\ session.pc = "enable"
    /\ \E reply \in EnableReplies :
          LET s1 == Write(session, "enable")
          IN  session' =
                 CASE reply = "Password:" ->
                        [Write(Observe(s1), "password") EXCEPT !.pc = "configure"]
                   [] reply = "#" -> [Observe(s1) EXCEPT !.pc = "configure"]
                   [] OTHER -> [s1 EXCEPT !.pc = "configure"]
    /\ UNCHANGED <<storeVars, parser, walk>>

\* send("configure") and send("show ont-optical all"): nothing is read in
\* between, so the reply to "configure" is still in the stream when the read
\* loop starts
HsgqConfigure ==
    /\ session.adapter = "hsgq"
    /\ session.pc = "configure"
    /\ \E reply \in ConfigureReplies, out \in OpticalOutputs :
          session' = [Write(Write(session, "configure"), "show ont-optical all")
                        EXCEPT !.pc = "read", !.buf = <<>>, !.avail = reply \o out]
    /\ UNCHANGED <<storeVars, parser, walk>>

\* one pass of the read loop: a chunk with the prompt ends it, and so does a
\* read that times out after 2 s
HsgqRead ==
    /\ session.adapter = "hsgq"
    /\ session.pc = "read"
    /\ IF session.avail = <<>>
       THEN session' = EndOfOutput(session)
       ELSE \E n \in 1..Len(session.avail) :
               LET data == SubSeq(session.avail, 1, n)
                   s1 == [session EXCEPT
                            !.buf = session.buf \o data,
                            !.avail = SubSeq(session.avail, n + 1, Len(session.avail))]
               IN  session' = IF HasConfigPrompt(data)
                              THEN [Observe(s1) EXCEPT !.ret = "onus", !.pc = "finally"]
                              ELSE s1
    /\ UNCHANGED <<storeVars, parser, walk>>

\* the async with block is left and get_onus returns
HsgqReturn ==
    /\ session.adapter = "hsgq"
    /\ session.pc = "finally"
    /\ session' = [session EXCEPT
                     !.pc = "done", !.result = session.ret,
                     !.parsed = Count(session.buf, "o"),
                     !.transport = IF session.transport = "none" THEN "none" ELSE "closed"]
    /\ UNCHANGED <<storeVars, parser, walk>>

\* the specification of one interactive fetch ------------------------------
InteractiveAdapters == {"hioso", "hsgq_epon", "hsgq"}

InitSession ==
    /\ onus = <<>>
    /\ status = InitialStatus
    /\ checked = [o \in OltIds |-> 0]
    /\ queue = [m \in Messages |-> 0]
    /\ jobs = [j \in Jobs |-> IdleJob]
    /\ returned = NoReturn
    /\ now = 0
    /\ autoflush = FALSE
    /\ hist = NoHist
    /\ session \in { NewSession(a) : a \in InteractiveAdapters }
    /\ parser = NoParser
    /\ walk = NoWalk

NextSession ==
    \/ HiosoConnect
    \/ HiosoLogin
    \/ HiosoMode
    \/ HiosoSelectPort
    \/ HiosoShow
    \/ HiosoRead
    \/ HiosoLeavePort
    \/ HiosoDisconnect
    \/ EponConnect
    \/ EponWaitPass
    \/ EponDialogue
    \/ EponReturn
    \/ HsgqConnect
    \/ HsgqEnable
    \/ HsgqConfigure
    \/ HsgqRead
    \/ HsgqReturn

SpecSession == InitSession /\ [][NextSession]_vars

\* asyncio.run drives the coroutine of get_onus until it returns: a step that
\* can be taken is taken
SpecSessionFair == SpecSession /\ WF_vars(NextSession)

\* ===================================================== interactive parsers
\* The identifier an interactive parser gives the record of one listing
\* line.  A text is a sequence of characters; only the identifier column of
\* the line is modelled, the other columns are taken to match.
LowerHex == {"0", "1", "2", "3", "4", "5", "6", "7", "8", "9", "a", "b", "c", "d", "e", "f"}
UpperHex == {"A", "B", "C", "D", "E", "F"}
HexChars == LowerHex \cup UpperHex
Separators == {":", ".", "-"}

\* str.lower() / str.upper() on one character
Lower(ch) ==
    CASE ch = "A" -> "a" [] ch = "B" -> "b" [] ch = "C" -> "c"
      [] ch = "D" -> "d" [] ch = "E" -> "e" [] ch = "F" -> "f"
      [] OTHER -> ch
Upper(ch) ==
    CASE ch = "a" -> "A" [] ch = "b" -> "B" [] ch = "c" -> "C"
      [] ch = "d" -> "D" [] ch = "e" -> "E" [] ch = "f" -> "F"
      [] OTHER -> ch
LowerText(text) == [k \in 1..Len(text) |-> Lower(text[k])]

\* the MAC of one ONU, as its twelve hex digits
DeviceMac == <<"9", "8", "c", "7", "a", "4", "5", "e", "3", "0", "b", "8">>

\* the digits written with sep after every group digits, in upper or lower case
RECURSIVE Spell(_, _, _, _)
Spell(digits, group, sep, upper) ==
    LET cased == [k \in 1..Len(digits) |->
                    IF upper THEN Upper(digits[k]) ELSE digits[k]]
    IN  IF Len(digits) <= group THEN cased
        ELSE SubSeq(cased, 1, group) \o <<sep>>
             \o Spell(SubSeq(digits, group + 1, Len(digits)), group, sep, upper)

\* the identifier columns a listing can show: the MAC in the notations
\* devices use, and columns that hold no MAC at all
Columns ==
    { Spell(DeviceMac, g, sep, up) :
        g \in {2, 6}, sep \in Separators, up \in BOOLEAN }
    \cup { <<"-", "-">>,
           <<"n", "/", "a">>,
           [k \in 1..17 |-> ":"] }

ParserVendors == {"hioso", "hsgq", "hsgq_epon"}

\* HiosoTelnetService._parse_onus: the column matches [0-9a-fA-F:.-]+ and the
\* identifier is the column without its non-hex characters
HiosoIdentifier(column) ==
    IF column # <<>> /\ \A k \in 1..Len(column) : column[k] \in HexChars \cup Separators
    THEN << SelectSeq(column, LAMBDA ch : ch \in HexChars) >>
    ELSE <<>>

\* HsgqEponSshService._parse_onu_info: the column matches [0-9a-fA-F:]{17}
\* and the identifier is the column in lower case
EponIdentifier(column) ==
    IF Len(column) = 17 /\ \A k \in 1..Len(column) : column[k] \in HexChars \cup {":"}
    THEN << LowerText(column) >>
    ELSE <<>>

\* HsgqSshService._parse_onus: the column matches \S+ and is the identifier
HsgqIdentifier(column) ==
    IF column # <<>> THEN << column >> ELSE <<>>

\* the identifiers of the records the vendor's parser emits for the column:
\* one, or none when the line does not match
ParseIdentifier(vendor, column) ==
    CASE vendor = "hioso" -> HiosoIdentifier(column)
      [] vendor = "hsgq_epon" -> EponIdentifier(column)
      [] OTHER -> HsgqIdentifier(column)

\* the parser of one vendor is given two lines
InitParser ==
    /\ onus = <<>>
    /\ status = InitialStatus
    /\ checked = [o \in OltIds |-> 0]
    /\ queue = [m \in Messages |-> 0]
    /\ jobs = [j \in Jobs |-> IdleJob]
    /\ returned = NoReturn
    /\ now = 0
    /\ autoflush = FALSE
    /\ hist = NoHist
    /\ session = NoSession
    /\ parser \in { [pc |-> "parse", vendor |-> v, line |-> <<c1, c2>>, emitted |-> <<>>] :
                      v \in ParserVendors, c1 \in Columns, c2 \in Columns }
    /\ walk = NoWalk

\* _parse_onus / _parse_onu_info over the lines
ParseLines ==
    /\ parser.pc = "parse"
    /\ parser' = [parser EXCEPT
                    !.pc = "done",
                    !.emitted = [k \in 1..Len(parser.line) |->
                                    ParseIdentifier(parser.vendor, parser.line[k])]]
    /\ UNCHANGED <<storeVars, session, walk>>

NextParser == ParseLines

SpecParser == InitParser /\ [][NextParser]_vars

\* ============================================================== transcripts
\* One run of an interactive parser on the raw output of a listing.  The
\* output is a sequence of elements: "row", the text of one ONU line with
\* its onuId and MAC columns (the other columns are taken to fit); "text",
\* other text without a line break; "nl" a line break, "cr" a lone carriage
\* return, "bs" a backspace; "More" and "Press", the pagination markers
\* ("---- More ----" / "--More--", "-- Press Enter Or Space To Continue --").
MaxLines == 3

Row(onuId, onuMac) == [kind |-> "row", onuId |-> onuId, onuMac |-> onuMac]
Element(kind) == [kind |-> kind, onuId |-> <<>>, onuMac |-> <<>>]
Kinds(text) == [k \in 1..Len(text) |-> text[k].kind]

Digits == {"0", "1", "2", "3", "4", "5", "6", "7", "8", "9"}
\* \d+
IsNumber(text) == text # <<>> /\ \A k \in 1..Len(text) : text[k] \in Digits
\* \d+/\d+:\d+, the onuId column of HiosoTelnetService
FitsHiosoOnuId(text) ==
    \E i, j \in 1..Len(text) :
        /\ i < j
        /\ text[i] = "/"
        /\ text[j] = ":"
        /\ IsNumber(SubSeq(text, 1, i - 1))
        /\ IsNumber(SubSeq(text, i + 1, j - 1))
        /\ IsNumber(SubSeq(text, j + 1, Len(text)))
\* \d+/\d+, the PON/ONU column of HsgqEponSshService
FitsEponOnuId(text) ==
    \E i \in 1..Len(text) :
        /\ text[i] = "/"
        /\ IsNumber(SubSeq(text, 1, i - 1))
        /\ IsNumber(SubSeq(text, i + 1, Len(text)))

\* re.sub(r'--+ Press Enter Or Space To Continue --+[\b]*', '\n', raw_output)
RECURSIVE DropBackspaces(_)
DropBackspaces(text) ==
    IF text # <<>> /\ Head(text).kind = "bs" THEN DropBackspaces(Tail(text)) ELSE text
RECURSIVE ReplacePress(_)
ReplacePress(text) ==
    IF text = <<>> THEN <<>>
    ELSE IF Head(text).kind = "Press"
         THEN <<Element("nl")>> \o ReplacePress(DropBackspaces(Tail(text)))
         ELSE <<Head(text)>> \o ReplacePress(Tail(text))

\* str.splitlines()
RECURSIVE SplitLines(_)
SplitLines(text) ==
    IF text = <<>> THEN <<>>
    ELSE LET breaks == { k \in 1..Len(text) : text[k].kind \in {"nl", "cr"} }
             k == IF breaks = {} THEN Len(text) + 1
                  ELSE CHOOSE b \in breaks : \A c \in breaks : b <= c
         IN  <<SubSeq(text, 1, k - 1)>> \o SplitLines(SubSeq(text, k + 1, Len(text)))

\* _parse_onus, one line: the control characters are removed, then
\* onu_pattern.match(line): the line must begin with the columns of an ONU
\* line; the last group (.+) takes what follows them on the line
HiosoMatch(line) ==
    LET shown == SelectSeq(line, LAMBDA e : e.kind # "bs")
    IN  IF /\ shown # <<>>
           /\ shown[1].kind = "row"
           /\ FitsHiosoOnuId(shown[1].onuId)
           /\ HiosoIdentifier(shown[1].onuMac) # <<>>
        THEN << [identifier |-> HiosoIdentifier(shown[1].onuMac)[1],
                 pon_interface |-> shown[1].onuId,
                 vendor_name |-> "hioso",
                 time |-> Kinds(Tail(shown))] >>
        ELSE <<>>

\* _parse_onus: the loop over the lines
RECURSIVE HiosoBug_StopsAtMismatch(_)
HiosoBug_StopsAtMismatch(lines) ==
    IF lines = <<>> \/ (Head(lines) # <<>> /\ HiosoMatch(Head(lines)) = <<>>) THEN <<>>
    ELSE HiosoMatch(Head(lines)) \o HiosoBug_StopsAtMismatch(Tail(lines))

RECURSIVE HiosoRecords(_)
HiosoRecords(lines) ==
    IF lines = <<>> THEN <<>>
    ELSE HiosoMatch(Head(lines)) \o HiosoRecords(Tail(lines))

\* HiosoTelnetService._parse_onus
ParseOnus(raw_output) == HiosoRecords(SplitLines(ReplacePress(raw_output)))

\* HsgqEponSshService._parse_onu_info: '\r' and "--More--" are removed, then
\* pattern.findall(text) gives a record for every place the columns of an
\* ONU line are found
RECURSIVE EponRecords(_)
EponRecords(text) ==
    IF text = <<>> THEN <<>>
    ELSE (IF /\ Head(text).kind = "row"
             /\ FitsEponOnuId(Head(text).onuId)
             /\ EponIdentifier(Head(text).onuMac) # <<>>
          THEN << [identifier |-> EponIdentifier(Head(text).onuMac)[1],
                   pon_interface |-> Head(text).onuId,
                   vendor_name |-> "hsgq",
                   time |-> <<>>] >>
          ELSE <<>>)
         \o EponRecords(Tail(text))

ParseOnuInfo(raw_output) ==
    EponRecords(SelectSeq(raw_output, LAMBDA e : e.kind \notin {"cr", "More"}))

\* the parser of the vendor's interactive adapter
ParseTranscript(vendor, raw_output) ==
    IF vendor = "hioso" THEN ParseOnus(raw_output) ELSE ParseOnuInfo(raw_output)

\* the lines a listing can hold: ONU lines whose columns fit the grammar, ONU
\* lines with an onuId or a MAC that does not, and a line of other text
TranscriptVendors == {"hioso", "hsgq_epon"}
ListedLines(vendor) ==
    IF vendor = "hioso"
    THEN { Row(id, mac) :
             id \in { <<"1", "/", "1", ":", "3">>, <<"1", "/", "1", ":", "7">>, <<"1", "/", "1">> },
             mac \in { Spell(DeviceMac, 6, ".", FALSE), <<"9", "8", "c", "7", "z", "z">> } }
         \cup { Element("text") }
    ELSE { Row(id, mac) :
             id \in { <<"1", "/", "3">>, <<"1", "/", "7">>, <<"1">> },
             mac \in { Spell(DeviceMac, 2, ":", FALSE), <<"9", "8", ":", "c", "7">> } }
         \cup { Element("text") }

\* what stays in the raw output between two lines where the listing was
\* paged: nothing, what the device printed over a marker get_onus has
\* removed, or the marker and what the device printed over it
PageBreaks(vendor) ==
    LET more == { <<Element("More")>>,
                  <<Element("More"), Element("bs")>>,
                  <<Element("More"), Element("cr")>> }
    IN  IF vendor = "hioso"
        THEN more \cup { <<>>, <<Element("bs")>>,
                          <<Element("Press")>>, <<Element("Press"), Element("bs")>> }
        ELSE more \cup { <<>> }

\* the raw output: every line with its line break, and after the k-th line
\* the k-th page break
RECURSIVE RawOutput(_, _)
RawOutput(lines, breaks) ==
    IF lines = <<>> THEN <<>>
    ELSE <<Head(lines), Element("nl")>>
         \o (IF breaks = <<>> THEN <<>> ELSE Head(breaks))
         \o RawOutput(Tail(lines), IF breaks = <<>> THEN <<>> ELSE Tail(breaks))

InitTranscript ==
    /\ onus = <<>>
    /\ status = InitialStatus
    /\ checked = [o \in OltIds |-> 0]
    /\ queue = [m \in Messages |-> 0]
    /\ jobs = [j \in Jobs |-> IdleJob]
    /\ returned = NoReturn
    /\ now = 0
    /\ autoflush = FALSE
    /\ hist = NoHist
    /\ session = NoSession
    /\ walk = NoWalk
    /\ \E v \in TranscriptVendors, n \in 1..MaxLines :
         \E lines \in [1..n -> ListedLines(v)], breaks \in [1..(n - 1) -> PageBreaks(v)] :
            parser = [pc |-> "parse", vendor |-> v, line |-> lines, breaks |-> breaks,
                      emitted |-> <<>>]

\* the parser runs on the raw output
ParseRawOutput ==
    /\ parser.pc = "parse"
    /\ parser' = [parser EXCEPT
                    !.pc = "done",
                    !.emitted = ParseTranscript(parser.vendor,
                                                RawOutput(parser.line, parser.breaks))]
    /\ UNCHANGED <<storeVars, session, walk>>

NextTranscript == ParseRawOutput

SpecTranscript == InitTranscript /\ [][NextTranscript]_vars

\* ========================================================= SNMP correlators
\* One get_onus_snmp() / get_onus() call of an SNMP adapter: one walk per
\* field of its OID table, the merge of the walks by ONU index, and the
\* records emitted for the indices.
SnmpVendors == {"hioso", "hsgq", "hsgq_epon"}
\* the indices the agent has rows for, in the order a walk returns them
IndexOrder == <<"7", "8">>
Indices == {"7", "8"}

\* the field that holds the identifier: identifier_key's default, and the
\* key HsgqEponSnmpService reads
IdentifierField(vendor) == IF vendor = "hsgq" THEN "serial_number" ELSE "mac_address"
\* the fields of the OID table that are walked, in the table's order
WalkFields(vendor) == <<"tx_power", IdentifierField(vendor)>>

\* value.prettyPrint() of the agent's values: a raw power reading, and
\* identifiers: a MAC as 0x-prefixed hex, a truncated one, an empty string
PowerValues == {<<"-", "1", "2", "3", "4">>}
IdentifierValues == { <<"0", "x">> \o DeviceMac, <<"0", "x", "9", "8">>, <<>> }

\* the rows the agent has under one field: a value for some of the indices
Partial(values) == UNION { [D -> values] : D \in SUBSET Indices }
\* the agent's tables, one per walked field
Agents == { <<tx, id>> : tx \in Partial(PowerValues), id \in Partial(IdentifierValues) }
\* how a walk goes: to the end, or broken off by an error-indication, an
\* error-status or an exception after that many rows
Completes == [broke |-> FALSE, rows |-> 0]
BreaksAfter(n) == [broke |-> TRUE, rows |-> n]
WalkFailures == {Completes} \cup { BreaksAfter(n) : n \in 0..1 }

\* the first n elements of a sequence
Prefix(seq, n) == SubSeq(seq, 1, IF n < Len(seq) THEN n ELSE Len(seq))
\* the indices one walk returns rows for, in order
Walked(table, failure) ==
    LET present == SelectSeq(IndexOrder, LAMBDA i : i \in DOMAIN table)
    IN  IF failure.broke THEN Prefix(present, failure.rows) ELSE present

\* _snmp_walk of field k: the rows read before the walk ended or broke off
WalkBug_OneFailureAbortsAll(agent, fails, k) ==
    IF \E m \in 1..Len(fails) : fails[m].broke
    THEN <<>>
    ELSE agent[k]

SnmpWalkResults(agent, fails, k) ==
    LET got == Walked(agent[k], fails[k])
    IN  [i \in { got[n] : n \in 1..Len(got) } |-> agent[k][i]]

\* onus_by_index[index]: onu_index and the value of every field whose walk
\* returned a row for the index
PartialRecord(vendor, snmp_data, index) ==
    LET fields == WalkFields(vendor)
        have == { k \in 1..Len(fields) : index \in DOMAIN snmp_data[k] }
    IN  [f \in { fields[k] : k \in have } \cup {"onu_index"} |->
           IF f = "onu_index" THEN index
           ELSE snmp_data[CHOOSE k \in have : fields[k] = f][index]]

\* the indices of onus_by_index
MergedIndices(snmp_data) ==
    { i \in Indices : \E k \in 1..Len(snmp_data) : i \in DOMAIN snmp_data[k] }

\* raw_mac.replace('0x', '')
RECURSIVE RemoveOx(_)
RemoveOx(text) ==
    IF Len(text) < 2 THEN text
    ELSE IF text[1] = "0" /\ text[2] = "x"
         THEN RemoveOx(SubSeq(text, 3, Len(text)))
         ELSE <<text[1]>> \o RemoveOx(Tail(text))

\* cleaned_mac: without '0x', spaces and colons, in lower case
CleanedMac(raw_mac) ==
    LowerText(SelectSeq(RemoveOx(raw_mac), LAMBDA ch : ch \notin {" ", ":"}))

\* float(raw) succeeds: of the values an agent gives, the decimal integers
IsFloat(raw) ==
    \/ IsNumber(raw)
    \/ raw # <<>> /\ raw[1] = "-" /\ IsNumber(Tail(raw))
\* the value of a string of digits
DigitValue(ch) == CHOOSE n \in 0..9 : ToString(n) = ch
RECURSIVE IntOf(_)
IntOf(digits) ==
    IF digits = <<>> THEN 0
    ELSE 10 * IntOf(SubSeq(digits, 1, Len(digits) - 1)) + DigitValue(digits[Len(digits)])

\* f"{float(raw) / 100.0:.2f} dBm": the sign, the hundreds of the magnitude,
\* a point and its last two digits; "N/A" when raw is no number
PowerDbm(raw) ==
    IF ~IsFloat(raw) THEN "N/A"
    ELSE LET negative == raw[1] = "-"
             magnitude == IntOf(IF negative THEN Tail(raw) ELSE raw)
         IN  (IF negative THEN "-" ELSE "")
             \o ToString(magnitude \div 100) \o "."
             \o ToString((magnitude % 100) \div 10) \o ToString(magnitude % 10)
             \o " dBm"

\* status_map.get(data.get('status'), 'Unknown')
StatusName(data) ==
    IF "status" \notin DOMAIN data THEN "Unknown"
    ELSE CASE data["status"] = <<"1">> -> "Online"
           [] data["status"] = <<"2">> -> "Offline"
           [] OTHER -> "Unknown"

\* get_onus_snmp of HiosoSnmpService and HsgqSnmpService: an index without
\* the identifier field is skipped, any other gives one record that carries
\* the partial record as its details
KeyedRecord(vendor, data) ==
    IF IdentifierField(vendor) \notin DOMAIN data
    THEN <<>>
    ELSE << [identifier |-> data[IdentifierField(vendor)], details |-> data] >>

\* HsgqEponSnmpService.get_onus: an index without a MAC, or whose cleaned
\* MAC has not twelve characters, is skipped; any other gives one record
\* with the formatted MAC, the two formatted power readings (both "N/A" when
\* one of them is no number) and the status name; name and distance are
\* copied and left out here
EponRecord(data) ==
    LET raw_mac == IF "mac_address" \in DOMAIN data THEN data["mac_address"] ELSE <<>>
        cleaned_mac == CleanedMac(raw_mac)
        formatted_mac == Spell(cleaned_mac, 2, ":", FALSE)
        raw_tx == IF "tx_power" \in DOMAIN data THEN data["tx_power"] ELSE <<"0">>
        raw_rx == IF "rx_power" \in DOMAIN data THEN data["rx_power"] ELSE <<"0">>
        parsed == IsFloat(raw_tx) /\ IsFloat(raw_rx)
    IN  IF raw_mac = <<>> \/ Len(cleaned_mac) # 12
        THEN <<>>
        ELSE << [identifier |-> formatted_mac,
                 pon_interface |-> "N/A",
                 vendor_name |-> "hsgq_epon",
                 details |-> [onu_index |-> data["onu_index"],
                              mac_address |-> formatted_mac,
                              tx_power |-> IF parsed THEN PowerDbm(raw_tx) ELSE "N/A",
                              rx_power |-> IF parsed THEN PowerDbm(raw_rx) ELSE "N/A",
                              status |-> StatusName(data)]] >>

\* the records a correlator emits for one partial record: one, or none
RecordBug_NoIdentifierCheck(vendor, data) ==
    << [identifier |-> IF IdentifierField(vendor) \in DOMAIN data
                       THEN data[IdentifierField(vendor)] ELSE <<>>,
        details |-> data] >>

SnmpRecords(vendor, data) ==
    IF vendor = "hsgq_epon" THEN EponRecord(data) ELSE KeyedRecord(vendor, data)

\* the records of one fetch, by the index they were made from
Correlate(vendor, snmp_data) ==
    LET made(i) == SnmpRecords(vendor, PartialRecord(vendor, snmp_data, i))
    IN  [i \in { n \in MergedIndices(snmp_data) : made(n) # <<>> } |-> made(i)[1]]

\* the walks are coroutines on one event loop and one SnmpEngine: a walk is
\* "pending" until it is started, "running" while its rows arrive one
\* response at a time, and "done" when _snmp_walk has returned.
\* the number of walks in that state
InState(w, st) == Cardinality({ k \in 1..Len(w.state) : w.state[k] = st })

\* walk k may start.  asyncio.gather starts the walks in the table's order
\* without waiting for any of them; the loop of HsgqEponSnmpService.get_onus
\* awaits each walk before the next
StartBug_AllConcurrent(w, k) ==
    /\ w.state[k] = "pending"
    /\ IF k = 1 THEN TRUE ELSE w.state[k - 1] # "pending"

MayStart(w, k) ==
    /\ w.state[k] = "pending"
    /\ IF k = 1 THEN TRUE
       ELSE IF w.vendor = "hsgq_epon"
            THEN w.state[k - 1] = "done"
            ELSE w.state[k - 1] # "pending"

\* every walk has returned: the await of asyncio.gather, or the end of the
\* loop over the OID table
JoinBug_FirstCompleted(w) == \E k \in 1..Len(w.state) : w.state[k] = "done"

Joined(w) == \A k \in 1..Len(w.state) : w.state[k] = "done"

\* the rows of walk k that have not arrived yet, in the agent's order
Outstanding(w, k) ==
    SelectSeq(IndexOrder,
              LAMBDA i : /\ i \in DOMAIN SnmpWalkResults(w.agent, w.fails, k)
                         /\ i \notin DOMAIN w.results[k])

\* results[index] = value.prettyPrint()
WithRow(results, index, value) ==
    [i \in DOMAIN results \cup {index} |-> IF i = index THEN value ELSE results[i]]

InitWalk ==
    /\ onus = <<>>
    /\ status = InitialStatus
    /\ checked = [o \in OltIds |-> 0]
    /\ queue = [m \in Messages |-> 0]
    /\ jobs = [j \in Jobs |-> IdleJob]
    /\ returned = NoReturn
    /\ now = 0
    /\ autoflush = FALSE
    /\ hist = NoHist
    /\ session = NoSession
    /\ parser = NoParser
    /\ walk \in { [pc |-> "walk", vendor |-> v, agent |-> a, fails |-> <<f1, f2>>,
                   state |-> <<"pending", "pending">>, results |-> <<<<>>, <<>>>>,
                   overlap |-> FALSE,
                   snmp_data |-> <<<<>>, <<>>>>, result |-> <<>>, ret |-> "none"] :
                    v \in SnmpVendors, a \in Agents,
                    f1 \in WalkFailures, f2 \in WalkFailures }

\* a walk is started: results = {} and the first request goes out; overlap
\* records that another walk was in flight when it started
SnmpStart ==
    /\ walk.pc = "walk"
    /\ \E k \in 1..Len(walk.state) :
         /\ MayStart(walk, k)
         /\ walk' = [walk EXCEPT
                       !.state[k] = "running",
                       !.overlap = @ \/ InState(walk, "running") > 0]
    /\ UNCHANGED <<storeVars, session, parser>>

\* one response of a running walk: its row is put into the walk's results
SnmpRow ==
    /\ walk.pc = "walk"
    /\ \E k \in 1..Len(walk.state) :
         /\ walk.state[k] = "running"
         /\ Outstanding(walk, k) # <<>>
         /\ LET index == Head(Outstanding(walk, k))
            IN  walk' = [walk EXCEPT
                           !.results[k] = WithRow(@, index, walk.agent[k][index])]
    /\ UNCHANGED <<storeVars, session, parser>>

\* one _snmp_walk returns: the walk has run to the end or has broken off,
\* and the rows it read are the field's table
SnmpWalk ==
    /\ walk.pc = "walk"
    /\ \E k \in 1..Len(walk.state) :
         /\ walk.state[k] = "running"
         /\ Outstanding(walk, k) = <<>>
         /\ walk' = [walk EXCEPT
                       !.state[k] = "done",
                       !.snmp_data[k] = walk.results[k]]
    /\ UNCHANGED <<storeVars, session, parser>>

\* the merge by index, the loop that emits the records, and the return
SnmpCorrelate ==
    /\ walk.pc = "walk"
    /\ Joined(walk)
    /\ walk' = [walk EXCEPT
                  !.result = Correlate(walk.vendor, walk.snmp_data),
                  !.ret = "onus",
                  !.pc = "done"]
    /\ UNCHANGED <<storeVars, session, parser>>

NextWalk ==
    \/ SnmpStart
    \/ SnmpRow
    \/ SnmpWalk
    \/ SnmpCorrelate

SpecWalk == InitWalk /\ [][NextWalk]_vars

\* ========================================================= value conversion
\* The emit loop of HsgqEponSnmpService.get_onus on one partial record: the
\* values value.prettyPrint() gave for the index under status, tx_power,
\* rx_power and mac_address, each of which may be missing.
ConvertedFields == {"status", "tx_power", "rx_power", "mac_address"}
\* status codes; power readings in centi-units and a reading that is no
\* number; MACs as 0x-prefixed hex, as colon-separated upper-case octets,
\* truncated, and empty
RawValues(field) ==
    CASE field = "status" -> { <<"1">>, <<"2">>, <<"3">> }
      [] field = "mac_address" ->
           { <<"0", "x">> \o DeviceMac, Spell(DeviceMac, 2, ":", TRUE),
             <<"0", "x", "9", "8", "c", "7">>, <<>> }
      [] OTHER -> { <<"-", "1", "2", "3", "4">>, <<"-", "5">>, <<"2", "5", "0">>,
                    <<"0">>, <<"-", "-">> }
\* onus_by_index[index] for index "7"
PartialRecords ==
    UNION { { [f \in D \cup {"onu_index"} |-> IF f = "onu_index" THEN "7" ELSE g[f]] :
                g \in { h \in [D -> UNION { RawValues(f) : f \in D }] :
                          \A f \in D : h[f] \in RawValues(f) } } :
            D \in SUBSET ConvertedFields }

InitConvert ==
    /\ onus = <<>>
    /\ status = InitialStatus
    /\ checked = [o \in OltIds |-> 0]
    /\ queue = [m \in Messages |-> 0]
    /\ jobs = [j \in Jobs |-> IdleJob]
    /\ returned = NoReturn
    /\ now = 0
    /\ autoflush = FALSE
    /\ hist = NoHist
    /\ session = NoSession
    /\ parser = NoParser
    /\ walk \in { [pc |-> "convert", vendor |-> "hsgq_epon", data |-> d, final_onus |-> <<>>] :
                    d \in PartialRecords }

\* one pass of the emit loop: the record is appended, or the index skipped
ConvertRecord ==
    /\ walk.pc = "convert"
    /\ walk' = [walk EXCEPT !.pc = "done", !.final_onus = EponRecord(walk.data)]
    /\ UNCHANGED <<storeVars, session, parser>>

NextConvert == ConvertRecord

SpecConvert == InitConvert /\ [][NextConvert]_vars

\* ========================================================== instance indices
\* One _snmp_walk seen at the level of the objects it is given: every
\* response row is an object name (the field's base OID and an instance
\* suffix) with a value, and the walk files the value under the index it
\* extracts from the name.  An object name is the sequence of its numeric
\* components.
\* components of an instance suffix, and rows of one walk
MaxSuffix == 3
MaxRows == 2

\* OIDS['mac_address'] of HsgqEponSnmpService
OidBase == <<1, 3, 6, 1, 4, 1, 50224, 3, 3, 2, 1, 7>>
\* the suffixes the alternate pattern recognizes: .0.0 and .65535.65535
Sentinels == { <<0, 0>>, <<65535, 65535>> }
SuffixParts == {0, 5, 6, 65535}
Suffixes == UNION { [1..n -> SuffixParts] : n \in 1..MaxSuffix }
\* the object names a walk can be given: instances under the base OID, and
\* a name of one component, which holds no '.'
ObjectNames == { OidBase \o sfx : sfx \in Suffixes } \cup { <<7>> }

\* the last n components
LastParts(oid, n) == SubSeq(oid, Len(oid) - n + 1, Len(oid))

\* re.search(r'\.(\d+)$|(\d+)\.(?:0\.0|65535\.65535)$', oid_str) tried at one
\* place of the string: at the '.' before component k, where only the first
\* alternative can match, or at the first digit of component k, where only
\* the second can; the index matched, or none
MatchAtDot(oid, k) ==
    IF k = Len(oid) THEN << <<oid[k]>> >> ELSE <<>>
MatchAtDigits(oid, k) ==
    IF k = Len(oid) - 2 /\ LastParts(oid, 2) \in Sentinels THEN << <<oid[k]>> >> ELSE <<>>

\* the search goes from left to right and stops at the first place that
\* matches: before component k that is the '.', then the digits
RECURSIVE SearchFrom(_, _)
SearchFrom(oid, k) ==
    IF k > Len(oid) THEN <<>>
    ELSE IF k > 1 /\ MatchAtDot(oid, k) # <<>> THEN MatchAtDot(oid, k)
    ELSE IF MatchAtDigits(oid, k) # <<>> THEN MatchAtDigits(oid, k)
    ELSE SearchFrom(oid, k + 1)

\* HsgqSnmpService._snmp_walk / HsgqEponSnmpService._snmp_walk: onu_index
IndexBug_LastComponent(oid) ==
    IF Len(oid) > 1 THEN << LastParts(oid, 1) >> ELSE <<>>

HsgqIndex(oid) == SearchFrom(oid, 1)

\* HiosoSnmpService._snmp_walk: parts = str(oid_obj).split('.'); the index
\* is the last two parts when there are more than two
HiosoIndex(oid) ==
    IF Len(oid) > 2 THEN << LastParts(oid, 2) >> ELSE <<>>

OnuIndex(vendor, oid) == IF vendor = "hioso" THEN HiosoIndex(oid) ELSE HsgqIndex(oid)

\* the loop body for one row: results[onu_index] = value.prettyPrint() when
\* an index was extracted
FileRow(vendor, results, row) ==
    LET found == OnuIndex(vendor, row.oid)
    IN  IF found = <<>> THEN results
        ELSE [i \in DOMAIN results \cup {found[1]} |->
                IF i = found[1] THEN row.value ELSE results[i]]

\* the rows of one walk: distinct objects, the k-th with the value k
VarBinds ==
    { [k \in 1..Len(names) |-> [oid |-> names[k], value |-> k]] :
        names \in { ns \in UNION { [1..n -> ObjectNames] : n \in 1..MaxRows } :
                      \A a, b \in 1..Len(ns) : ns[a] = ns[b] => a = b } }

InitIndex ==
    /\ onus = <<>>
    /\ status = InitialStatus
    /\ checked = [o \in OltIds |-> 0]
    /\ queue = [m \in Messages |-> 0]
    /\ jobs = [j \in Jobs |-> IdleJob]
    /\ returned = NoReturn
    /\ now = 0
    /\ autoflush = FALSE
    /\ hist = NoHist
    /\ session = NoSession
    /\ parser = NoParser
    /\ walk \in { [pc |-> "rows", vendor |-> v, var_binds |-> vb, at |-> 1,
                   results |-> <<>>, ret |-> "none"] :
                    v \in SnmpVendors, vb \in VarBinds }

\* one pass of the loop over the rows
IndexRow ==
    /\ walk.pc = "rows"
    /\ walk.at <= Len(walk.var_binds)
    /\ walk' = [walk EXCEPT
                  !.results = FileRow(walk.vendor, @, walk.var_binds[walk.at]),
                  !.at = @ + 1]
    /\ UNCHANGED <<storeVars, session, parser>>

\* return results
IndexReturn ==
    /\ walk.pc = "rows"
    /\ walk.at > Len(walk.var_binds)
    /\ walk' = [walk EXCEPT !.pc = "done", !.ret = "results"]
    /\ UNCHANGED <<storeVars, session, parser>>

NextIndex ==
    \/ IndexRow
    \/ IndexReturn

SpecIndex == InitIndex /\ [][NextIndex]_vars

\* ----------------------------------------------------- vocabulary of claims
\* the task in slot j returns in this step (from its loop or its commit)
Returns(j) == jobs[j].pc = "loop" /\ jobs'[j].pc = "idle"
\* ... with the success payload, i.e. after db.commit()
Commits(j) == Returns(j) /\ returned'.payload.kind = "message"
\* the task in slot j takes a step
Steps(j) == jobs[j].pc = "loop" /\ jobs'[j] # jobs[j]
\* a task returns in the step that starts it
ReturnsAtStart == now' = now + 1 /\ jobs' = jobs /\ returned'.task \in Tasks
\* the step is one invocation of sync_all_olts_data
SyncAllStep ==
    /\ now' = now + 1
    /\ jobs' = jobs
    /\ status' = status
    /\ returned'.task = "sync_all_olts_data"

KeyOf(row) == <<row.olt_id, row.identifier>>
KeysOf(table) == [r \in 1..Len(table) |-> KeyOf(table[r])]
RowsWithKey(table, o, id) ==
    { r \in 1..Len(table) : table[r].olt_id = o /\ table[r].identifier = id }
OnePerKey(table) ==
    \A r1, r2 \in 1..Len(table) : KeyOf(table[r1]) = KeyOf(table[r2]) => r1 = r2
\* a row without its timestamp
Untimed(row) == [row EXCEPT !.last_seen = 0]
UntimedTable(table) == [r \in 1..Len(table) |-> Untimed(table[r])]
\* the position of the last record of the batch that carries the identifier of record k
LastWithId(items, k) ==
    CHOOSE m \in 1..Len(items) :
        /\ items[m].identifier = items[k].identifier
        /\ \A n \in 1..Len(items) : items[n].identifier = items[k].identifier => n <= m
\* row r held the same record before the step and only its primary detail
\* map and its timestamp may differ
UpdatedInPlace(r) ==
    /\ r <= Len(onus)
    /\ onus'[r].olt_id = onus[r].olt_id
    /\ onus'[r].identifier = onus[r].identifier
    /\ onus'[r].pon_interface = onus[r].pon_interface
    /\ onus'[r].vendor_name = onus[r].vendor_name
    /\ onus'[r].details_snmp = onus[r].details_snmp

\* the stored record the interactive job in slot j leaves for its record k,
\* when the detail map it must hold is that of record src of the batch
StoredFor(j, k, src) ==
    LET job == jobs[j]
        id == job.items[k].identifier
    IN  \E r \in RowsWithKey(onus', job.olt, id) :
          /\ onus'[r].details = job.items[src].details
          /\ onus'[r].last_seen = job.stamp
          /\ r <= Len(onus) => UpdatedInPlace(r)
          /\ RowsWithKey(onus, job.olt, id) = {} => r > Len(onus)

\* ------------------------------------------------------------------- claims
\* C1 (as stated): after run_ssh_telnet_sync returns its success payload for
\* device D, for EVERY record r the adapter returned a stored record with key
\* (D, r.identifier) holds r.details and the job's timestamp, updated in place
\* when the key existed, inserted otherwise.
C1_EveryRecordStored ==
    [][ \A j \in Jobs :
          Commits(j) /\ jobs[j].task = "run_ssh_telnet_sync"
          => \A k \in 1..Len(jobs[j].items) : StoredFor(j, k, k) ]_vars

\* C1 (amended): ... a stored record with key (D, r.identifier) holds the
\* detail map of the LAST returned record that carries r.identifier, and the
\* job's timestamp; a row that was there before is updated in place, and when
\* no row with the key was there a new one is inserted.
C1_LastRecordStored ==
    [][ \A j \in Jobs :
          Commits(j) /\ jobs[j].task = "run_ssh_telnet_sync"
          => \A k \in 1..Len(jobs[j].items) :
                StoredFor(j, k, LastWithId(jobs[j].items, k)) ]_vars

\* C1 witness: an interactive sync of device 1 returned "synced 2": it updated
\* the row of X in place (new details, new timestamp) and inserted Y.
C1_Witness ==
    /\ returned.task = "run_ssh_telnet_sync"
    /\ returned.olt = 1
    /\ returned.payload = Payload("message", "synced", 2)
    /\ Len(onus) = 2
    /\ onus[1].identifier = "X" /\ onus[1].details = "b" /\ onus[1].last_seen > 0
    /\ onus[2].identifier = "Y" /\ onus[2].last_seen = onus[1].last_seen

\* C2: run_snmp_sync never creates a record: no step of an SNMP sync changes
\* the (device, identifier) keys of the table, so the records it matched
\* nothing for are discarded.
C2_SnmpCreatesNothing ==
    [][ \A j \in Jobs :
          Steps(j) /\ jobs[j].task = "run_snmp_sync"
          => KeysOf(onus') = KeysOf(onus) ]_vars

\* C2 witness: an SNMP sync of device 1 committed with one record matched,
\* and the table still holds the single row it held.
C2_Witness ==
    /\ returned.task = "run_snmp_sync"
    /\ returned.olt = 1
    /\ returned.payload = Payload("message", "synced", 1)
    /\ Len(onus) = 1
    /\ onus[1].details_snmp # "null"
    /\ onus[1].last_seen > 0

\* C3: a committing run_snmp_sync changes, of a row it matched, only
\* details_snmp (to the returned detail map) and last_seen; details,
\* pon_interface, vendor_name, identifier and olt_id keep their values, and
\* rows it did not match are untouched.
C3_SnmpTouchesOnlySecondaryMap ==
    [][ \A j \in Jobs :
          Commits(j) /\ jobs[j].task = "run_snmp_sync"
          => /\ Len(onus') = Len(onus)
             /\ \A r \in 1..Len(onus) :
                  \/ onus'[r] = onus[r]
                  \/ /\ onus'[r].olt_id = jobs[j].olt
                     /\ onus'[r].olt_id = onus[r].olt_id
                     /\ onus'[r].identifier = onus[r].identifier
                     /\ onus'[r].pon_interface = onus[r].pon_interface
                     /\ onus'[r].vendor_name = onus[r].vendor_name
                     /\ onus'[r].details = onus[r].details
                     /\ onus'[r].last_seen = jobs[j].stamp
                     /\ \E k \in 1..Len(jobs[j].items) :
                          /\ jobs[j].items[k].identifier = onus[r].identifier
                          /\ onus'[r].details_snmp = jobs[j].items[k].details ]_vars

\* C3 witness: the row of X holds its primary map "a" from the interactive
\* sync and a secondary map "b" an SNMP sync wrote later.
C3_Witness ==
    /\ returned.task = "run_snmp_sync"
    /\ returned.payload.text = "synced"
    /\ \E r \in 1..Len(onus) :
          /\ onus[r].details = "a"
          /\ onus[r].details_snmp = "b"
          /\ onus[r].pon_interface = "1/1:3"
          /\ onus[r].last_seen > 0

\* C4: upsert-by-identifier is safe under concurrency: an interactive sync
\* whose batch names every identifier once, committing into a table with one
\* row per (device, identifier), leaves one row per (device, identifier),
\* whatever other jobs committed while it ran.
C4_OneRecordPerKey ==
    [][ \A j \in Jobs :
          /\ Commits(j)
          /\ jobs[j].task = "run_ssh_telnet_sync"
          /\ \A k \in 1..Len(jobs[j].items) : LastWithId(jobs[j].items, k) = k
          /\ OnePerKey(onus)
          => OnePerKey(onus') ]_vars

\* C5: sync is idempotent: a sync that commits right after a sync of the same
\* kind for the same device committed (no commit in between), with the
\* adapter returning the same records, leaves the table as it was, timestamps
\* excepted, and reports the same count.
C5_Idempotent ==
    [][ \A j \in Jobs :
          /\ Commits(j)
          /\ hist.stamp > 0
          /\ hist.after[j] = hist.stamp
          /\ hist.task = jobs[j].task
          /\ hist.olt = jobs[j].olt
          /\ hist.items = jobs[j].items
          => /\ UntimedTable(onus') = UntimedTable(onus)
             /\ jobs[j].count = hist.count ]_vars

\* C6: interactive sync is all-or-nothing: a step of run_ssh_telnet_sync that
\* is not the return of its success payload (a pass of the loop, an error
\* payload from the loop, the commit or the fetch) leaves the table as it was.
C6_AllOrNothing ==
    [][ /\ \A j \in Jobs :
             Steps(j) /\ jobs[j].task = "run_ssh_telnet_sync" /\ ~Commits(j)
             => onus' = onus
        /\ ReturnsAtStart /\ returned'.task = "run_ssh_telnet_sync" => onus' = onus ]_vars

\* C6 witness: an interactive sync of device 1 returned the error payload of
\* an exception raised in its loop or commit, and the table is the initial one.
C6_Witness ==
    /\ returned.task = "run_ssh_telnet_sync"
    /\ returned.olt = 1
    /\ returned.payload = Payload("error", "db_exception", 0)
    /\ onus \in InitialTables

\* C7: when the SNMP adapter yields no records, run_snmp_sync returns an
\* error payload, not a success payload.
C7_EmptySnmpResultIsError ==
    returned.task = "run_snmp_sync" /\ returned.payload.text = "no_onus"
    => returned.payload.kind = "error"

\* C8: the tasks never raise: whatever returns is a payload with "message"
\* or "error".
C8_NeverRaises ==
    returned.payload.kind \in {"none", "message", "error"}

C10_NeverDeletes ==
    [][ /\ Len(onus') >= Len(onus)
        /\ \A r \in 1..Len(onus) : KeyOf(onus'[r]) = KeyOf(onus[r]) ]_vars

\* C10 witness: device 1 reported only Y; the row of X, last seen before, is
\* still there next to the new row of Y.
C10_Witness ==
    /\ returned.task = "run_ssh_telnet_sync"
    /\ returned.olt = 1
    /\ returned.payload = Payload("message", "synced", 1)
    /\ Len(onus) = 2
    /\ onus[1].identifier = "X" /\ onus[1].last_seen = 0
    /\ onus[2].identifier = "Y" /\ onus[2].olt_id = 1

\* C11: no ordering is required between a device's two sync jobs.  An SNMP
\* sync that commits while the table has no row for a returned identifier
\* creates nothing for it and returns its success payload; a row an
\* interactive sync inserts has an empty secondary map; and the secondary map
\* of a row becomes non-empty only in the commit of an SNMP sync of the row's
\* device whose batch carries the row's identifier.
C11_NoOrderingRequired ==
    [][ /\ \A j \in Jobs :
             Commits(j) /\ jobs[j].task = "run_snmp_sync"
             => \A k \in 1..Len(jobs[j].items) :
                   RowsWithKey(onus, jobs[j].olt, jobs[j].items[k].identifier) = {}
                   => RowsWithKey(onus', jobs[j].olt, jobs[j].items[k].identifier) = {}
        /\ \A r \in 1..Len(onus') :
             r > Len(onus) => onus'[r].details_snmp = "null"
        /\ \A r \in 1..Len(onus) :
             onus[r].details_snmp = "null" /\ onus'[r].details_snmp # "null"
             => \E j \in Jobs :
                   /\ Commits(j)
                   /\ jobs[j].task = "run_snmp_sync"
                   /\ jobs[j].olt = onus[r].olt_id
                   /\ \E k \in 1..Len(jobs[j].items) :
                         jobs[j].items[k].identifier = onus[r].identifier ]_vars

\* C11 witness: an SNMP sync of device 1 that was given X committed as a
\* no-op (count 0, table still empty), and an interactive sync started after
\* it holds the new row of X, secondary map empty, ready to be committed.
C11_Witness ==
    /\ returned.task = "run_snmp_sync"
    /\ returned.olt = 1
    /\ returned.payload = Payload("message", "synced", 0)
    /\ hist.task = "run_snmp_sync"
    /\ \E k \in 1..Len(hist.items) : hist.items[k].identifier = "X"
    /\ onus = <<>>
    /\ \E j \in Jobs :
          /\ jobs[j].task = "run_ssh_telnet_sync"
          /\ jobs[j].olt = 1
          /\ hist.after[j] = hist.stamp
          /\ Len(jobs[j].new) = 1
          /\ jobs[j].new[1].identifier = "X"
          /\ jobs[j].new[1].details_snmp = "null"

\* C19: an empty OID catalog does not fail SNMP sync: for a device of a
\* supported vendor, run_snmp_sync never returns the "SNMP OIDs not found"
\* error.
C19_EmptyCatalogFallsBack ==
    /\ returned.task = "run_snmp_sync"
    /\ returned.olt \in OltIds
    => ~ /\ OLT[returned.olt].vendor \in {"hsgq", "hioso"}
         /\ returned.payload = Payload("error", "oids_not_found", 0)

\* C20: a sync job for device D creates or modifies only rows of D: a step of
\* a job leaves every row of another device as it was, and the rows it adds
\* are rows of D, whether it succeeds or fails.
C20_OnlyOwnDevice ==
    [][ \A j \in Jobs :
          Steps(j)
          => /\ \A r \in 1..Len(onus) :
                  onus[r].olt_id # jobs[j].olt => onus'[r] = onus[r]
             /\ \A r \in 1..Len(onus') :
                  r > Len(onus) => onus'[r].olt_id = jobs[j].olt ]_vars

\* C20 witness: an interactive sync of device 2 inserted its row of X while
\* device 1 holds a row of X, which is as it was.
C20_Witness ==
    /\ returned.task = "run_ssh_telnet_sync"
    /\ returned.olt = 2
    /\ returned.payload = Payload("message", "synced", 1)
    /\ Len(onus) = 2
    /\ onus[1] = Onu(1, "X", "1/1:3", "hioso", "a", "null", 0)
    /\ onus[2].olt_id = 2
    /\ onus[2].identifier = "X"
    /\ onus[2].last_seen > 0

\* C12: in every interactive adapter at most one command is in flight: no
\* command line is written while the prompt that ends the previously written
\* line has not been observed in the received stream.
C12_OneCommandInFlight ==
    ~session.overlap

\* C13: when a login-step wait expires, nothing more is written to the
\* session except a logout, and get_onus returns an error result.
C13_LoginExpiryAborts ==
    session.expired
    => /\ ~session.afterExpiry
       /\ session.pc = "done" => session.result = "error"

\* C14: when the read loop of HiosoTelnetService.get_onus ends, every
\* pagination marker that arrived, however the output was cut into chunks,
\* was answered by one space, is gone from the accumulated buffer, and did
\* not end the loop: the port prompt is in the buffer.
C14_MarkersAnswered ==
    session.adapter = "hioso" /\ session.pc = "leave"
    => /\ session.spaces = session.markers
       /\ Count(session.buf, "m1") = 0
       /\ Count(session.buf, "m2") = 0
       /\ session.markers > 0 => Count(session.buf, "p") > 0

\* C15: whenever HiosoTelnetService.get_onus has finished, a transport it
\* opened is closed.
C15_TransportReleased ==
    session.adapter = "hioso" /\ session.pc = "done"
    => session.transport # "open"

\* the MAC a column spells: its hex digits in lower case
MacOf(column) == LowerText(SelectSeq(column, LAMBDA ch : ch \in HexChars))

\* C16: every record an interactive parser emits has a non-empty identifier
\* in normalized form: two lines that spell the same MAC in different case or
\* with different separators get the same identifier, and no line gets the
\* empty identifier.
C16_IdentifierNormalized ==
    parser.pc = "done"
    => /\ \A k \in 1..Len(parser.emitted) :
             parser.emitted[k] # <<>> => parser.emitted[k][1] # <<>>
       /\ \A k, m \in 1..Len(parser.emitted) :
             /\ parser.emitted[k] # <<>>
             /\ parser.emitted[m] # <<>>
             /\ MacOf(parser.line[k]) = MacOf(parser.line[m])
             /\ Len(MacOf(parser.line[k])) = Len(DeviceMac)
             => parser.emitted[k] = parser.emitted[m]


\* the position of the identifier field among the walked fields
IdentifierColumn(vendor) ==
    CHOOSE k \in 1..Len(WalkFields(vendor)) : WalkFields(vendor)[k] = IdentifierField(vendor)
\* the index's partial record lacks the identifier field
LacksIdentifier(i) ==
    i \notin DOMAIN walk.snmp_data[IdentifierColumn(walk.vendor)]
\* the index's partial record holds an identifier the vendor's correlator
\* accepts: any value, for HSGQ EPON a MAC of twelve digits
UsableIdentifier(i) ==
    /\ ~LacksIdentifier(i)
    /\ walk.vendor = "hsgq_epon" =>
         Len(CleanedMac(walk.snmp_data[IdentifierColumn(walk.vendor)][i])) = 12
\* the value field k has in the record emitted for index i
EmittedValue(i, k) ==
    walk.result[i].details[WalkFields(walk.vendor)[k]]
\* the value the vendor's record shows for the agent's value of field k
ShownValue(k, value) ==
    IF walk.vendor # "hsgq_epon" THEN value
    ELSE IF k = IdentifierColumn(walk.vendor)
         THEN Spell(CleanedMac(value), 2, ":", FALSE)
         ELSE PowerDbm(value)

\* C17: in each of the three SNMP correlators an index whose partial record
\* lacks the identifier field (Hioso mac_address, HSGQ GPON serial_number,
\* HSGQ EPON mac_address) gives no record, the fetch still returns its
\* records, and every index with a usable identifier is still emitted; so an
\* index that has only tx_power = "-1234" is absent from the result.
C17_MissingIdentifierDropped ==
    walk.pc = "done" =>
      /\ walk.ret = "onus"
      /\ \A i \in Indices :
           /\ LacksIdentifier(i) => i \notin DOMAIN walk.result
           /\ UsableIdentifier(i) => i \in DOMAIN walk.result

\* a fetch in which index 7 has only tx_power = "-1234" and index 8 has an
\* identifier: 7 is dropped, 8 is emitted
C17_Witness ==
    /\ walk.pc = "done"
    /\ walk.fails = <<Completes, Completes>>
    /\ "7" \in DOMAIN walk.agent[1]
    /\ "7" \notin DOMAIN walk.agent[2]
    /\ walk.snmp_data[1]["7"] = <<"-", "1", "2", "3", "4">>
    /\ DOMAIN walk.result = {"8"}

\* C18: when the walk of one field breaks off (error-indication,
\* error-status or an exception), the walk of every other field still
\* returns all the rows the agent has, every record emitted for an index shows
\* the values of those fields, the broken walk keeps the rows it had read,
\* and the fetch returns its records instead of failing.
C18_WalkErrorStopsOneField ==
    walk.pc = "done" =>
      \A bad \in 1..Len(walk.fails) :
        walk.fails[bad].broke =>
          /\ walk.ret = "onus"
          /\ DOMAIN walk.snmp_data[bad] \subseteq DOMAIN walk.agent[bad]
          /\ \A k \in 1..Len(walk.fails) :
               (k # bad /\ ~walk.fails[k].broke) =>
                 /\ walk.snmp_data[k] = walk.agent[k]
                 /\ \A i \in DOMAIN walk.result :
                      i \in DOMAIN walk.agent[k] =>
                        EmittedValue(i, k) = ShownValue(k, walk.agent[k][i])

\* the identifier walk breaks off after its first row while the power walk
\* completes: index 7 is emitted with its power, and the power walk holds
\* the rows of both indices
C18_Witness ==
    /\ walk.pc = "done"
    /\ walk.fails = <<Completes, BreaksAfter(1)>>
    /\ DOMAIN walk.agent[1] = {"7", "8"}
    /\ DOMAIN walk.agent[2] = {"7", "8"}
    /\ DOMAIN walk.snmp_data[1] = {"7", "8"}
    /\ DOMAIN walk.snmp_data[2] = {"7"}
    /\ "7" \in DOMAIN walk.result


\* C21: every interactive fetch ends: whatever the device sends or fails to
\* send (no prompt, a closed stream), get_onus of each adapter comes to its
\* end with an outcome, so its read loops terminate.
C21_FetchTerminates ==
    <>(session.pc = "done")

\* a fetch of HsgqEponSshService ended although the device never sent the
\* prompt of the listing: the last wait_for_prompt gave up when its time was over
C21_Witness ==
    /\ session.adapter = "hsgq_epon"
    /\ session.pc = "done"
    /\ session.step = Len(EponPrompts)
    /\ Count(session.buf, "p") = 0
    /\ session.elapsed > MaxWait
    /\ session.result = "onus"


\* a step of HiosoTelnetService.get_onus in which the prompt of the port did
\* not come and "exit" was written
SkipStep ==
    /\ session.adapter = "hioso"
    /\ session.pc = "port"
    /\ session'.sent = session.sent \o <<"pon", "exit">>

LoginInputsUpTo(n) == SubSeq(HiosoLoginInputs, 1, n)

\* C26: HiosoTelnetService.connect follows its login script in order: while
\* it runs, the lines written are the first lines of the script (username,
\* password, newline, access password, 'enable', enable password) and there
\* are never more of them than prompts observed, so nothing is written before
\* 'login:' and the k-th line only after the k-th prompt; connect has
\* completed only when all seven prompts, the last being 'EPON#', were
\* observed and the six lines written.
C26_LoginScriptInOrder ==
    /\ session.adapter = "hioso" /\ session.pc = "login"
       => /\ Len(session.sent) <= Len(HiosoLoginInputs)
          /\ session.sent = LoginInputsUpTo(Len(session.sent))
          /\ Len(session.sent) <= session.seen
          /\ session.step = session.seen + 1
    /\ session.adapter = "hioso" /\ session.pc \in {"mode", "port", "show", "read", "leave"}
       => /\ session.seen >= Len(HiosoLoginPrompts)
          /\ Len(session.sent) >= Len(HiosoLoginInputs)
          /\ SubSeq(session.sent, 1, Len(HiosoLoginInputs)) = HiosoLoginInputs

\* connect has just completed: seven prompts observed, the six lines written
C26_Witness ==
    /\ session.adapter = "hioso"
    /\ session.pc = "mode"
    /\ session.step = 1
    /\ session.seen = Len(HiosoLoginPrompts)
    /\ session.sent = HiosoLoginInputs


C28_LoopEndsOnShowPrompt ==
    session.adapter = "hsgq" /\ session.pc = "finally" /\ ~session.timedout
    /\ session.ret = "onus"
    => /\ Count(session.buf, "p") > 0
       /\ Count(session.avail, "o") = 0


\* the rows of the table the step inserted or changed
Affected == { r \in 1..Len(onus') : r > Len(onus) \/ onus'[r] # onus[r] }
\* no identifier occurs twice among the records
DistinctIdentifiers(items) ==
    \A k, m \in 1..Len(items) : items[k].identifier = items[m].identifier => k = m

\* C24 as stated: the count of a success payload is the number of store
\* records the job inserted or updated.
C24_CountIsRecordsAffected ==
    [][ \A j \in Jobs :
          Commits(j) => returned'.payload.count = Cardinality(Affected) ]_vars

\* C24: the count of a success payload is the number of returned records the
\* job processed: every returned record for run_ssh_telnet_sync, those for
\* which a stored record was found for run_snmp_sync.  It is never less than
\* the number of store records inserted or updated, and equal to it when the
\* returned records carry pairwise distinct identifiers.
C24_CountIsRecordsProcessed ==
    [][ \A j \in Jobs :
          Commits(j) =>
            /\ returned'.payload.count >= Cardinality(Affected)
            /\ returned'.payload.count <= Len(jobs[j].items)
            /\ jobs[j].task = "run_ssh_telnet_sync"
               => returned'.payload.count = Len(jobs[j].items)
            /\ DistinctIdentifiers(jobs[j].items)
               => returned'.payload.count = Cardinality(Affected) ]_vars

\* an SNMP sync of device 1 whose fetch returned two records with different
\* identifiers, one of them stored: it reported one record, and one row
\* carries its timestamp
C24_Witness ==
    /\ returned.task = "run_snmp_sync"
    /\ returned.payload = Payload("message", "synced", 1)
    /\ hist.task = "run_snmp_sync"
    /\ Len(hist.items) = 2
    /\ DistinctIdentifiers(hist.items)
    /\ Cardinality({ r \in 1..Len(onus) : onus[r].last_seen = hist.stamp }) = 1


\* the line fits the grammar of the vendor's parser
WellFormed(vendor, line) ==
    /\ line.kind = "row"
    /\ IF vendor = "hioso"
       THEN FitsHiosoOnuId(line.onuId) /\ HiosoIdentifier(line.onuMac) # <<>>
       ELSE FitsEponOnuId(line.onuId) /\ EponIdentifier(line.onuMac) # <<>>
\* the listing without page breaks
Unpaged(lines) == RawOutput(lines, <<>>)

NoPageBreaks == \A k \in 1..Len(parser.breaks) : parser.breaks[k] = <<>>
\* the lines of the transcript that fit the ONU grammar, in transcript order
FittingLines == SelectSeq(parser.line, LAMBDA l : WellFormed("hioso", l))

\* C23: Hioso _parse_onus on a transcript with k lines that fit the ONU
\* grammar and any number of lines that do not returns exactly k records, in
\* transcript order, each with pon_interface equal to the onuId of its line
\* and vendor_name "hioso"; a line that does not match gives no record and
\* leaves the records of the other lines as they are.
C23_OneRecordPerFittingLine ==
    parser.pc = "done" /\ parser.vendor = "hioso" /\ NoPageBreaks
    => /\ Len(parser.emitted) = Len(FittingLines)
       /\ \A k \in 1..Len(parser.emitted) :
             /\ parser.emitted[k].pon_interface = FittingLines[k].onuId
             /\ parser.emitted[k].identifier = HiosoIdentifier(FittingLines[k].onuMac)[1]
             /\ parser.emitted[k].vendor_name = "hioso"

\* the scenario of C23: the lines "1/1:3", a line with a malformed MAC,
\* "1/1:7"; two records are returned
C23_Witness ==
    /\ parser.pc = "done" /\ parser.vendor = "hioso" /\ NoPageBreaks
    /\ Len(parser.line) = 3
    /\ WellFormed("hioso", parser.line[1])
    /\ parser.line[2].kind = "row" /\ HiosoIdentifier(parser.line[2].onuMac) = <<>>
    /\ WellFormed("hioso", parser.line[3])
    /\ parser.line[1].onuId = <<"1", "/", "1", ":", "3">>
    /\ parser.line[3].onuId = <<"1", "/", "1", ":", "7">>
    /\ Len(parser.emitted) = 2


\* the adapters whose walks are gathered
Gathered == {"hioso", "hsgq"}
\* the table each walk yields when it is left to return
FinalTables == [k \in 1..Len(walk.state) |-> SnmpWalkResults(walk.agent, walk.fails, k)]

\* C29: in HiosoSnmpService.get_onus_snmp and HsgqSnmpService.get_onus_snmp
\* the walks of the fields are in flight together, and the records are
\* built only after every walk has returned: whatever the interleaving of
\* their rows, at the return every walk is done, no table is still being
\* filled, and the records are those of the complete tables.
C29_JoinedBeforeCorrelation ==
    walk.vendor \in Gathered /\ walk.pc = "done"
    => /\ \A k \in 1..Len(walk.state) :
            /\ walk.state[k] = "done"
            /\ walk.snmp_data[k] = FinalTables[k]
       /\ walk.result = Correlate(walk.vendor, FinalTables)

\* a gathered fetch whose two walks were in flight together, each with rows,
\* and which has returned a record
C29_Witness ==
    /\ walk.vendor = "hsgq" /\ walk.pc = "done"
    /\ walk.overlap
    /\ DOMAIN walk.snmp_data[1] = {"7", "8"}
    /\ DOMAIN walk.snmp_data[2] = {"7", "8"}
    /\ DOMAIN walk.result # {}

\* C30: in HsgqEponSnmpService.get_onus the walks are strictly sequential:
\* at most one walk is in flight, no walk started while another was in
\* flight, the walk of field k+1 is started only when the walk of field k
\* has returned (run to the end or broken off), and the records are built
\* only after the last walk has returned.
C30_WalksSequential ==
    walk.vendor = "hsgq_epon"
    => /\ InState(walk, "running") <= 1
       /\ ~walk.overlap
       /\ \A k \in 1..(Len(walk.state) - 1) :
            walk.state[k + 1] # "pending" => walk.state[k] = "done"
       /\ walk.pc = "done" => \A k \in 1..Len(walk.state) : walk.state[k] = "done"

\* the first walk has broken off after one row and has returned, and the
\* second walk is in flight with a row read
C30_Witness ==
    /\ walk.vendor = "hsgq_epon"
    /\ walk.fails[1] = BreaksAfter(1)
    /\ walk.state = <<"done", "running">>
    /\ DOMAIN walk.snmp_data[1] = {"7"}
    /\ DOMAIN walk.results[2] = {"7"}


\* the detail map the batch carries last for the identifier
LastDetails(items, id) ==
    LET at == { k \in 1..Len(items) : items[k].identifier = id }
    IN  items[CHOOSE m \in at : \A n \in at : n <= m].details
Reports(items, id) == \E k \in 1..Len(items) : items[k].identifier = id
\* the task in slot j commits, and the other sync of its device (the task
\* of the other kind) committed while it was running
CommitsSecond(j) ==
    /\ Commits(j)
    /\ hist.stamp # hist.after[j]
    /\ hist.olt = jobs[j].olt
    /\ hist.task \in Tasks \ {jobs[j].task}
\* the batches of the two jobs at that step
InteractiveItems(j) ==
    IF jobs[j].task = "run_ssh_telnet_sync" THEN jobs[j].items ELSE hist.items
SnmpItems(j) ==
    IF jobs[j].task = "run_snmp_sync" THEN jobs[j].items ELSE hist.items

\* C31: an interactive sync and an SNMP sync of one device run concurrently
\* and both commit: for every identifier the device had a record of before
\* both and that both report, the record ends with the interactive job's
\* detail map as its primary map and the SNMP job's detail map as its
\* secondary map, and with the timestamp of one of the two jobs, under every
\* interleaving.
C31_BothMapsKept ==
    [][ \A j \in Jobs :
          CommitsSecond(j)
          => \A id \in Identifiers :
               /\ \E r \in 1..hist.rows : KeyOf(onus[r]) = <<jobs[j].olt, id>>
               /\ Reports(InteractiveItems(j), id)
               /\ Reports(SnmpItems(j), id)
               => \E r \in RowsWithKey(onus', jobs[j].olt, id) :
                     /\ onus'[r].details = LastDetails(InteractiveItems(j), id)
                     /\ onus'[r].details_snmp = LastDetails(SnmpItems(j), id)
                     /\ onus'[r].last_seen \in {hist.stamp, jobs[j].stamp} ]_vars


\* the index the claim gives an object name: N for trailing N.0.0 or
\* N.65535.65535, the last component otherwise, none without a '.'
ClaimedIndex(oid) ==
    IF Len(oid) >= 3 /\ LastParts(oid, 2) \in Sentinels THEN << <<oid[Len(oid) - 2]>> >>
    ELSE IF Len(oid) >= 2 THEN << <<oid[Len(oid)]>> >>
    ELSE <<>>
\* the rows the walk has gone through
RowsRead == 1..(walk.at - 1)

\* C32: index extraction of HsgqSnmpService and HsgqEponSnmpService: a row
\* whose name ends in N.0.0 or N.65535.65535 is filed under N, every other
\* row under its last component; a row no index can be extracted from files
\* nothing, and the walk goes on to its end and returns.
C32_HsgqIndexExtraction ==
    walk.vendor \in {"hsgq", "hsgq_epon"}
    => /\ DOMAIN walk.results =
            { ClaimedIndex(walk.var_binds[k].oid)[1] :
                k \in { n \in RowsRead : ClaimedIndex(walk.var_binds[n].oid) # <<>> } }
       /\ \A k \in RowsRead :
            k = walk.at - 1 /\ ClaimedIndex(walk.var_binds[k].oid) # <<>>
            => walk.results[ClaimedIndex(walk.var_binds[k].oid)[1]] = walk.var_binds[k].value
       /\ walk.pc = "done" => walk.ret = "results" /\ walk.at = Len(walk.var_binds) + 1

\* a walk that returned after a row ending in 5.65535.65535, filed under 5,
\* and a row without a '.', which filed nothing
C32_Witness ==
    /\ walk.vendor = "hsgq_epon" /\ walk.pc = "done"
    /\ Len(walk.var_binds) = 2
    /\ walk.var_binds[1].oid = OidBase \o <<5, 65535, 65535>>
    /\ walk.var_binds[2].oid = <<7>>
    /\ DOMAIN walk.results = { <<5>> }
    /\ walk.results[<<5>>] = 1

\* C34: within one walk, values of objects with different instance suffixes
\* under the base OID are stored under different indices and never
\* overwrite each other: the walk returns as many entries as it was given
\* distinct instances.
C34_InstancesNeverMerged ==
    walk.pc = "done"
    => LET instances == { k \in 1..Len(walk.var_binds) :
                            Len(walk.var_binds[k].oid) > Len(OidBase) }
       IN  /\ Cardinality(DOMAIN walk.results) = Cardinality(instances)
           /\ \A k \in instances :
                \E i \in DOMAIN walk.results : walk.results[i] = walk.var_binds[k].value


\* the text the claim gives for a reading in centi-units
ClaimedDbm(raw) ==
    CASE raw = <<"-", "1", "2", "3", "4">> -> "-12.34 dBm"
      [] raw = <<"-", "5">> -> "-0.05 dBm"
      [] raw = <<"2", "5", "0">> -> "2.50 dBm"
      [] raw = <<"0">> -> "0.00 dBm"
\* the readings that are numbers of centi-units
CentiUnits == { <<"-", "1", "2", "3", "4">>, <<"-", "5">>, <<"2", "5", "0">>, <<"0">> }
\* the raw MACs of twelve hex digits
TwelveDigitMacs == { <<"0", "x">> \o DeviceMac, Spell(DeviceMac, 2, ":", TRUE) }
ClaimedStatus(data) ==
    IF "status" \in DOMAIN data /\ data["status"] = <<"1">> THEN "Online"
    ELSE IF "status" \in DOMAIN data /\ data["status"] = <<"2">> THEN "Offline"
    ELSE "Unknown"

\* C33: value conversion of HsgqEponSnmpService.get_onus: status '1' gives
\* 'Online', '2' 'Offline', anything else or nothing 'Unknown'; a power
\* reading of v centi-units gives v/100 with two decimals and ' dBm'
\* ('-1234' gives '-12.34 dBm'); a MAC of twelve hex digits gives the
\* lower-case colon-separated octets as the identifier; an index whose
\* cleaned MAC has not twelve characters is dropped.
C33_ValueConversion ==
    walk.pc = "done"
    => LET data == walk.data
           has(f) == f \in DOMAIN data
       IN  /\ has("mac_address") /\ data["mac_address"] \in TwelveDigitMacs
              => /\ Len(walk.final_onus) = 1
                 /\ walk.final_onus[1].identifier = Spell(DeviceMac, 2, ":", FALSE)
           /\ ~(has("mac_address") /\ data["mac_address"] \in TwelveDigitMacs)
              => walk.final_onus = <<>>
           /\ walk.final_onus # <<>>
              => /\ walk.final_onus[1].details.status = ClaimedStatus(data)
                 /\ \A f \in {"tx_power", "rx_power"} :
                      has(f) /\ data[f] \in CentiUnits
                      => walk.final_onus[1].details[f] = ClaimedDbm(data[f])


\* C35: when run_ssh_telnet_sync commits, a row that was there before keeps
\* its identifier, device, interface locator, vendor tag and secondary
\* detail map; only its primary detail map and its timestamp may change,
\* and a row that changed carries the job's timestamp, whatever interface
\* locator the fetched record reports.
C35_InteractiveUpdateFrame ==
    [][ \A j \in Jobs :
          Commits(j) /\ jobs[j].task = "run_ssh_telnet_sync"
          => \A r \in 1..Len(onus) :
               /\ UpdatedInPlace(r)
               /\ onus'[r] # onus[r] => onus'[r].last_seen = jobs[j].stamp ]_vars

\* the row of X, stored with locator "1/1:3" and given a secondary map by an
\* SNMP sync, after an interactive sync that fetched X at "1/1:7" with
\* detail map "b": new primary map and timestamp, the rest as it was
C35_Witness ==
    /\ returned.task = "run_ssh_telnet_sync"
    /\ returned.payload = Payload("message", "synced", 1)
    /\ hist.task = "run_ssh_telnet_sync"
    /\ hist.items = << [identifier |-> "X", pon_interface |-> "1/1:7", details |-> "b"] >>
    /\ onus = << Onu(1, "X", "1/1:3", "hioso", "b", "a", hist.stamp) >>


\* the devices of a vendor no adapter exists for
Unsupported == { o \in OltIds : OLT[o].vendor \notin {"hsgq", "hioso", "none"} }
\* a sync task is started for device o in this step: it returns at once, or
\* a slot holds it in its loop
StartsFor(o) ==
    /\ now' = now + 1
    /\ \/ jobs' = jobs /\ returned'.task \in Tasks /\ returned'.olt = o
       \/ \E j \in Jobs : jobs'[j] # jobs[j] /\ jobs'[j].olt = o

\* C36: for a device whose vendor is neither 'hsgq' nor 'hioso' (the seeded
\* 'zte'), run_ssh_telnet_sync and run_snmp_sync return the error payload
\* that says sync is not implemented, at once: no fetch is made, no slot
\* enters a loop and the store is as it was (a task the store fails for at
\* its first query is left aside).
C36_UnsupportedVendorRefused ==
    [][ \A o \in Unsupported :
          StartsFor(o)
          => /\ jobs' = jobs
             /\ onus' = onus
             /\ <<session, parser, walk>>' = <<session, parser, walk>>
             /\ returned'.payload.kind # "raised"
                => returned'.payload = Payload("error", "not_implemented", 0) ]_vars


\* the step is one invocation of check_all_olts_status
CheckStep ==
    /\ now' = now + 1
    /\ jobs' = jobs
    /\ returned'.task = "check_all_olts_status"

\* C37: when check_all_olts_status has committed, every device is 'online'
\* if its ping exited with code 0 and 'offline' if it did not (another exit
\* code, a timeout, an exception), and every device's last_checked is the
\* time of this check: a ping that fails for one device does not keep the
\* others from being probed and updated.
C37_StatusFollowsPing ==
    [][ CheckStep
        => \A o \in OltIds :
             /\ hist'.ping[o] \in PingResults
             /\ status'[o] = "online" <=> hist'.ping[o] = "exit0"
             /\ status'[o] = "offline" <=> hist'.ping[o] # "exit0"
             /\ checked'[o] = now' ]_vars

\* a check in which the ping of device 2 timed out and the others answered:
\* device 2 is offline, and devices 3 and 5, probed after it, went from
\* offline and unknown to online
C37_Witness ==
    /\ returned.task = "check_all_olts_status"
    /\ hist.ping[2] = "timeout"
    /\ \A o \in OltIds \ {2} : hist.ping[o] = "exit0" /\ status[o] = "online"
    /\ status[2] = "offline"
    /\ \A o \in OltIds : checked[o] = now

====
